---- MODULE Spec2Model ----
(***************************************************************************)
(* Cart service (src/cartservice-ts): the gRPC cart handlers, the storage  *)
(* contract and its two backends (MemoryStore, RedisStore with the         *)
(* protobuf codec).                                                        *)
(*                                                                         *)
(* Scheduling: JavaScript runs one handler at a time and yields only at an *)
(* await.  Each action below is the code between two suspension points of  *)
(* one handler invocation.  A Redis command is executed by the server in   *)
(* the step that delivers its reply to the awaiting continuation; a        *)
(* command that the client rejects was not applied by the server.          *)
(*                                                                         *)
(* The metrics and log sinks called by the handlers and the stores are     *)
(* assumed to return normally in specification Spec; what they record is   *)
(* kept in metrics.                                                        *)
(***************************************************************************)
EXTENDS Integers, Sequences, FiniteSets, TLC

(***************************************************************************)
(* Bounds of the model.                                                    *)
(***************************************************************************)
\* Number of handler invocations.
MaxCalls == 3
\* Width in bits of the wire type int32 of CartItem.quantity, scaled down
\* from 32 so that the checker reaches the wrap-around.
IntBits == 3
\* Number of Redis commands the client may reject in one run.
MaxFailures == 1

Calls == 1..MaxCalls
Int32Modulus == 2 ^ IntBits
Int32Max == 2 ^ (IntBits - 1) - 1

(***************************************************************************)
(* Optional values (undefined / null of the source).                       *)
(***************************************************************************)
None == <<>>
Some(v) == <<v>>
Val(o) == o[1]

(***************************************************************************)
(* Inputs.                                                                 *)
(***************************************************************************)
Users == {"u1", "u2"}
Products == {"p1", "p2"}
\* Strings made of white space only; String.prototype.trim maps them to "".
BlankStrings == {"", " "}
trim(s) == IF s \in BlankStrings THEN "" ELSE s

UserIdInputs == {None} \cup {Some(s) : s \in BlankStrings \cup Users}
ProductIdInputs == {None} \cup {Some(s) : s \in BlankStrings \cup Products}
ValidQuantities == {1, Int32Max}
QuantityInputs == {None} \cup {Some(q) : q \in {0, -1} \cup ValidQuantities}

Item(p, q) == [product_id |-> p, quantity |-> q]
AddItemRequest(u, it) == [method |-> "AddItem", user_id |-> u, item |-> it]
GetCartRequest(u) == [method |-> "GetCart", user_id |-> u, item |-> None]
EmptyCartRequest(u) == [method |-> "EmptyCart", user_id |-> u, item |-> None]

\* The requests the clients send: every well-formed request, and for each
\* validation check the requests that fail that check alone.
GoodAddItemRequests ==
    {AddItemRequest(Some("u1"), Some(Item(Some(p), Some(q)))) :
        p \in Products, q \in ValidQuantities}
    \cup {AddItemRequest(Some("u2"), Some(Item(Some("p1"), Some(1))))}
BadAddItemRequests ==
    {AddItemRequest(u, Some(Item(Some("p1"), Some(1)))) :
        u \in UserIdInputs \ {Some(s) : s \in Users}}
    \cup {AddItemRequest(Some("u1"), None)}
    \cup {AddItemRequest(Some("u1"), Some(Item(p, Some(1)))) :
        p \in ProductIdInputs \ {Some(s) : s \in Products}}
    \cup {AddItemRequest(Some("u1"), Some(Item(Some("p1"), q))) :
        q \in QuantityInputs \ {Some(v) : v \in ValidQuantities}}
    \cup {AddItemRequest(Some(" "), Some(Item(Some(""), Some(0)))),
          AddItemRequest(None, None)}
AddItemRequests == GoodAddItemRequests \cup BadAddItemRequests
\* Every combination of the fields of an addItem request.
AllAddItemRequests ==
    {AddItemRequest(u, None) : u \in UserIdInputs}
    \cup {AddItemRequest(u, Some(Item(p, q))) :
            u \in UserIdInputs, p \in ProductIdInputs, q \in QuantityInputs}
GetCartRequests == {GetCartRequest(u) : u \in UserIdInputs}
EmptyCartRequests == {EmptyCartRequest(u) : u \in UserIdInputs}

(***************************************************************************)
(* Cart values (storage/cart-store.ts).                                    *)
(***************************************************************************)
CartItem(p, q) == [productId |-> p, quantity |-> q]
Cart(u, its) == [userId |-> u, items |-> its]

(***************************************************************************)
(* The merge of addItem: the first item with the product id has its        *)
(* quantity incremented, otherwise the item is pushed at the end.          *)
(***************************************************************************)
find(items, productId) ==
    LET hits == {i \in 1..Len(items) : items[i].productId = productId}
    IN IF hits = {} THEN 0 ELSE CHOOSE i \in hits : \A j \in hits : i <= j

mergeAppendAlways(items, productId, quantity) ==
    Append(items, CartItem(productId, quantity))

mergeOverwrite(items, productId, quantity) ==
    LET i == find(items, productId)
    IN IF i # 0
       THEN [items EXCEPT ![i].quantity = quantity]
       ELSE Append(items, CartItem(productId, quantity))

mergeItemMoveToEnd(items, productId, quantity) ==
    LET i == find(items, productId)
    IN IF i # 0
       THEN Append(SubSeq(items, 1, i - 1) \o SubSeq(items, i + 1, Len(items)),
                   CartItem(productId, items[i].quantity + quantity))
       ELSE Append(items, CartItem(productId, quantity))

mergeItem(items, productId, quantity) ==
    LET i == find(items, productId)
    IN IF i # 0
       THEN [items EXCEPT ![i].quantity = @ + quantity]
       ELSE Append(items, CartItem(productId, quantity))

(***************************************************************************)
(* The protobuf codec of RedisStore.  A message is the sequence of its     *)
(* fields <<number, value>>:                                               *)
(*   Cart     { 1: string userId; 2: repeated CartItem items }             *)
(*   CartItem { 1: string productId; 2: int32 quantity }                   *)
(* An int32 is written as the two's complement of the number truncated to  *)
(* the width, and read back as a signed number.                            *)
(***************************************************************************)
encodeInt32(v) == v % Int32Modulus
decodeInt32Unsigned(w) == w

decodeInt32(w) == IF w > Int32Max THEN w - Int32Modulus ELSE w

\* CartMessage.verify: the error text, or "" when the message is well typed.
verify(cart) ==
    IF \E i \in 1..Len(cart.items) : cart.items[i].quantity \notin Int
    THEN "items.quantity: integer expected"
    ELSE ""

encodeItem(item) ==
    << <<1, item.productId>>, <<2, encodeInt32(item.quantity)>> >>

serializeCart(cart) ==
    << <<1, cart.userId>> >>
    \o [i \in 1..Len(cart.items) |-> <<2, encodeItem(cart.items[i])>>]

\* The value of the last field numbered n of a message, or the default.
fieldOr(msg, n, default) ==
    LET at == {i \in 1..Len(msg) : msg[i][1] = n}
    IN IF at = {} THEN default
       ELSE msg[CHOOSE i \in at : \A j \in at : j <= i][2]

decodeItem(msg) ==
    CartItem(fieldOr(msg, 1, ""), decodeInt32(fieldOr(msg, 2, 0)))

deserializeCart(buffer) ==
    LET itemFields == SelectSeq(buffer, LAMBDA f : f[1] = 2)
    IN Cart(fieldOr(buffer, 1, ""),
            [i \in 1..Len(itemFields) |-> decodeItem(itemFields[i][2])])

\* CartMessage.decode throws on a buffer that ends inside a field (here: a
\* field that has a number and no value); the text of the RangeError, or ""
\* when the buffer decodes.
decodeError(buffer) ==
    IF \E i \in 1..Len(buffer) : Len(buffer[i]) < 2
    THEN "index out of range"
    ELSE ""

getCartKeyShared(userId) == "cart:"

getCartKey(userId) == "cart:" \o userId
Keys == {getCartKey(u) : u \in Users}

(***************************************************************************)
(* Errors and responses.                                                   *)
(***************************************************************************)
\* Messages of the errors with which the Redis client rejects a command.
ClientErrors == {"Connection is closed."}

storageError(message) == "Can't access cart storage: " \o message

NoValue == [type |-> "none"]
EmptyMessage == [type |-> "Empty"]
Ok(value) == [code |-> "OK", message |-> "", value |-> value]
InvalidArgument(msg) ==
    [code |-> "INVALID_ARGUMENT", message |-> msg, value |-> NoValue]
FailedPrecondition(msg) ==
    [code |-> "FAILED_PRECONDITION", message |-> msg, value |-> NoValue]

\* The status the handlers send for a failure raised by the store.
storeFailureStatusInternal(msg) ==
    [code |-> "INTERNAL", message |-> storageError(msg), value |-> NoValue]

storeFailureStatus(msg) == FailedPrecondition(storageError(msg))

cartResponseNoItems(cart) ==
    [type |-> "Cart", user_id |-> cart.userId, items |-> <<>>]

\* The response message of getCart (snake_case fields of the proto).
cartResponse(cart) ==
    [type |-> "Cart",
     user_id |-> cart.userId,
     items |-> [i \in 1..Len(cart.items) |->
                  [product_id |-> cart.items[i].productId,
                   quantity |-> cart.items[i].quantity]]]

(***************************************************************************)
(* Request validation of the handlers (JavaScript truthiness: undefined,   *)
(* "" and 0 are falsy).  The result is the message of the first failing    *)
(* check, or "" when the request is accepted.                              *)
(***************************************************************************)
missingOrBlank(s) == s = None \/ Val(s) = "" \/ trim(Val(s)) = ""

validateUserId(request) ==
    IF missingOrBlank(request.user_id) THEN "user_id is required" ELSE ""

validateAddItemZeroQuantity(request) ==
    IF missingOrBlank(request.user_id) THEN "user_id is required"
    ELSE IF request.item = None THEN "item is required"
    ELSE IF missingOrBlank(Val(request.item).product_id)
         THEN "product_id is required"
    ELSE IF \/ Val(request.item).quantity = None
            \/ Val(Val(request.item).quantity) < 0
         THEN "quantity must be greater than 0"
    ELSE ""

validateAddItemProductFirst(request) ==
    IF request.item = None
    THEN IF missingOrBlank(request.user_id) THEN "user_id is required"
         ELSE "item is required"
    ELSE IF missingOrBlank(Val(request.item).product_id)
         THEN "product_id is required"
    ELSE IF missingOrBlank(request.user_id) THEN "user_id is required"
    ELSE IF \/ Val(request.item).quantity = None
            \/ Val(Val(request.item).quantity) <= 0
         THEN "quantity must be greater than 0"
    ELSE ""

validateAddItem(request) ==
    IF missingOrBlank(request.user_id) THEN "user_id is required"
    ELSE IF request.item = None THEN "item is required"
    ELSE IF missingOrBlank(Val(request.item).product_id)
         THEN "product_id is required"
    ELSE IF \/ Val(request.item).quantity = None
            \/ Val(Val(request.item).quantity) = 0
            \/ Val(Val(request.item).quantity) <= 0
         THEN "quantity must be greater than 0"
    ELSE ""

\* The arguments the handler passes to the store for an accepted request.
userOf(request) == Val(request.user_id)
productOf(request) == Val(Val(request.item).product_id)
quantityOf(request) == Val(Val(request.item).quantity)

(***************************************************************************)
(* State.                                                                  *)
(***************************************************************************)
VARIABLES
    store,       \* the backend selected at startup: "MemoryStore" | "RedisStore"
    carts,       \* MemoryStore.carts: userId -> reference of a Cart object, 0 = no entry
    heap,        \* the Cart objects, named by the call that created them
    redis,       \* the Redis server: key -> None | Some(bytes)
    pc,          \* where each handler invocation stands
    req,         \* its request
    pending,     \* the bytes of the SET command it has issued
    outcome,     \* how its store call settled
    callbacks,   \* the invocations of its gRPC callback, in order
    metrics,     \* its calls of recordCartRequest, in order
    storeCalls,  \* how many cart operations of the store it has invoked
    failures,    \* how many Redis commands the client has rejected
    snap,        \* history: what the backend held for the user when the call read (or, for emptyCart, wrote)
    overlapped,  \* history: another call for the same user was in flight during the call
    emptied,     \* history: per user, set by a successful emptyCart that ran alone, until the next addItem
    retryAttempts, \* client.retryAttempts modulo maxRetriesPerRequest + 1
    REDIS_ADDR,  \* the address in the environment of the process, if any
    telemetry,   \* the OpenTelemetry SDK of the process and how its calls ended
    sinks,       \* the fault of the telemetry sinks, if any
    logger,      \* the configured log level, the OpenTelemetry logger, the console
    ping,        \* per health check: the reply of the backend and the result of store.ping()
    isShuttingDown, \* setupShutdownHandlers.isShuttingDown
    server,      \* the gRPC server: "serving" | "draining" | "stopped" | "forced"
    client,      \* the connection of the Redis client: "open" | "closed"
    exit,        \* the exit code of the process: None while it runs
    shutdownPc   \* where the shutdown handler stands

vars == <<store, carts, heap, redis, pc, req, pending, outcome, callbacks,
          metrics, storeCalls, failures, snap, overlapped, emptied,
          REDIS_ADDR, sinks, telemetry, logger, ping, isShuttingDown, server, client, exit, shutdownPc,
          retryAttempts>>

processVars == <<isShuttingDown, server, client, exit, shutdownPc>>
sinkVars == <<sinks, telemetry, logger>>
envVars == <<REDIS_ADDR, sinkVars, ping, processVars, retryAttempts>>

historyVars == <<snap, overlapped, emptied>>

\* The telemetry module: the exporter endpoint of the configuration, the
\* module variable sdk (null, created but not started, or started), how
\* many times initializeTelemetry was called, how the last call of
\* initializeTelemetry and of shutdownTelemetry ended, and where the
\* OpenTelemetry library threw in each, if it did.
Telemetry(endpoint, sdk, inits, init, down) ==
    [otelExporterEndpoint |-> endpoint, sdk |-> sdk, inits |-> inits,
     initializeTelemetry |-> init, shutdownTelemetry |-> down,
     initFault |-> "none", downFault |-> "none"]

\* The logger module: config.logLevel, the module variable otelLogger, the
\* lines written to the console (each with the console method that wrote
\* it), the number of calls of the logger and the arguments of the last.
Logger(logLevel, otelLogger, console, calls, call) ==
    [logLevel |-> logLevel, otelLogger |-> otelLogger, console |-> console,
     calls |-> calls, call |-> call]

NoCall == [level |-> "", message |-> "", context |-> None]

\* The logger of a process with the default LOG_LEVEL and nothing logged.
Quiet == Logger("info", "null", <<>>, 0, NoCall)

\* The module after its load with no endpoint configured: initialized once.
Instrumented == Telemetry(None, "started", 1, "returns", "none")

NoRequest == [method |-> "none", user_id |-> None, item |-> None]
NoPing == [service |-> "", reply |-> [kind |-> "none", text |-> ""],
           result |-> "none"]
NoOutcome == [status |-> "none", ref |-> 0, error |-> ""]
Resolved(ref) == [status |-> "ok", ref |-> ref, error |-> ""]
Rejected(message) == [status |-> "error", ref |-> 0, error |-> message]

\* Backend selection of initializeStorage: config.redisAddr is
\* process.env.REDIS_ADDR || null, so an empty address is no address.
RedisAddrInputs == {None, Some(""), Some("redis-cart:6379")}
initializeStorageMemoryOnly(redisAddr) == "MemoryStore"

initializeStorage(redisAddr) ==
    IF redisAddr # None /\ Val(redisAddr) # "" THEN "RedisStore" ELSE "MemoryStore"

\* The service after main(): no call yet, the server serving, the client
\* connected, no shutdown signal received.
Started ==
    /\ carts = [u \in Users |-> 0]
    /\ heap = [c \in Calls |-> Cart("", <<>>)]
    /\ pc = [c \in Calls |-> "idle"]
    /\ req = [c \in Calls |-> NoRequest]
    /\ pending = [c \in Calls |-> None]
    /\ outcome = [c \in Calls |-> NoOutcome]
    /\ callbacks = [c \in Calls |-> <<>>]
    /\ metrics = [c \in Calls |-> <<>>]
    /\ storeCalls = [c \in Calls |-> 0]
    /\ failures = 0
    /\ snap = [c \in Calls |-> "none"]
    /\ overlapped = [c \in Calls |-> FALSE]
    /\ emptied = [u \in Users |-> "no"]
    /\ ping = [c \in Calls |-> NoPing]
    /\ isShuttingDown = FALSE
    /\ server = "serving"
    /\ client = "open"
    /\ retryAttempts = 0
    /\ exit = None
    /\ shutdownPc = "idle"

Init ==
    /\ REDIS_ADDR \in RedisAddrInputs
    /\ store = initializeStorage(REDIS_ADDR)
    /\ redis = [k \in Keys |-> None]
    /\ sinks = "none"
    /\ telemetry = Instrumented
    /\ logger = Quiet
    /\ Started

(***************************************************************************)
(* What the backend holds for a user, and what store.getCart returns for   *)
(* it when the backend answers.                                            *)
(***************************************************************************)
InFlight(c) == pc[c] \in {"get_wait", "set_wait", "settled"}

hasRecord(u) ==
    IF store = "MemoryStore" THEN carts[u] # 0 ELSE redis[getCartKey(u)] # None

storedCart(u) ==
    IF store = "MemoryStore"
    THEN IF carts[u] # 0 THEN heap[carts[u]] ELSE Cart(u, <<>>)
    ELSE IF redis[getCartKey(u)] # None
         THEN deserializeCart(Val(redis[getCartKey(u)]))
         ELSE Cart(u, <<>>)

kindOf(u) ==
    IF ~hasRecord(u) THEN "absent"
    ELSE IF store = "RedisStore" /\ decodeError(Val(redis[getCartKey(u)])) # ""
    THEN "corrupt"
    ELSE IF storedCart(u).items = <<>> THEN "empty" ELSE "items"

(***************************************************************************)
(* MemoryStore.  The Map holds references: addItem mutates the stored Cart *)
(* object in place, getCart returns the stored object itself, emptyCart    *)
(* stores a new object.  An object created by call c is heap[c].           *)
(***************************************************************************)
MemoryStore_addItemFresh(c, userId, productId, quantity) ==
    [carts |-> [carts EXCEPT ![userId] = c],
     heap |-> [heap EXCEPT ![c] =
                 Cart(userId, mergeItem(<<>>, productId, quantity))]]

MemoryStore_addItem(c, userId, productId, quantity) ==
    LET ref == IF carts[userId] # 0 THEN carts[userId] ELSE c
        cart == IF carts[userId] # 0 THEN heap[carts[userId]] ELSE Cart(userId, <<>>)
    IN [carts |-> [carts EXCEPT ![userId] = ref],
        heap |-> [heap EXCEPT ![ref] =
                    Cart(cart.userId, mergeItem(cart.items, productId, quantity))]]

MemoryStore_getCartDrains(c, userId) ==
    IF carts[userId] # 0
    THEN [ref |-> carts[userId],
          heap |-> [heap EXCEPT ![carts[userId]].items = <<>>]]
    ELSE [ref |-> c, heap |-> [heap EXCEPT ![c] = Cart(userId, <<>>)]]

MemoryStore_getCart(c, userId) ==
    IF carts[userId] # 0
    THEN [ref |-> carts[userId], heap |-> heap]
    ELSE [ref |-> c, heap |-> [heap EXCEPT ![c] = Cart(userId, <<>>)]]

MemoryStore_emptyCartKeepsItems(c, userId) ==
    IF carts[userId] # 0
    THEN [carts |-> carts, heap |-> heap]
    ELSE [carts |-> [carts EXCEPT ![userId] = c],
          heap |-> [heap EXCEPT ![c] = Cart(userId, <<>>)]]

MemoryStore_emptyCartIfPresent(c, userId) ==
    IF carts[userId] = 0
    THEN [carts |-> carts, heap |-> heap]
    ELSE [carts |-> [carts EXCEPT ![userId] = c],
          heap |-> [heap EXCEPT ![c] = Cart(userId, <<>>)]]

MemoryStore_emptyCartDeletes(c, userId) ==
    [carts |-> [carts EXCEPT ![userId] = 0], heap |-> heap]

MemoryStore_emptyCart(c, userId) ==
    [carts |-> [carts EXCEPT ![userId] = c],
     heap |-> [heap EXCEPT ![c] = Cart(userId, <<>>)]]

(***************************************************************************)
(* RedisStore.  getCart is GET then decode; addItem is getCart, the merge, *)
(* the encoding and SET; emptyCart is the encoding of the empty cart and   *)
(* SET.  `data` is the reply of GET: None for a missing key.               *)
(***************************************************************************)
SetCommand(key, value) == [key |-> key, value |-> value]

RedisStore_getCartNoUser(userId, data) ==
    IF data = None THEN Cart("", <<>>) ELSE deserializeCart(Val(data))

RedisStore_getCart(userId, data) ==
    IF data = None THEN Cart(userId, <<>>) ELSE deserializeCart(Val(data))

\* The message of the error RedisStore.getCart throws when the reply of GET
\* does not decode, or "" when it returns a cart.
RedisStore_getCartError(data) ==
    IF data # None /\ decodeError(Val(data)) # ""
    THEN storageError(decodeError(Val(data)))
    ELSE ""

RedisStore_addItemBlind(userId, productId, quantity, data) ==
    [error |-> "",
     command |-> Some(SetCommand(getCartKey(userId),
                    serializeCart(Cart(userId, mergeItem(<<>>, productId, quantity)))))]

RedisStore_addItem(userId, productId, quantity, data) ==
    LET cart == RedisStore_getCart(userId, data)
        merged == Cart(cart.userId, mergeItem(cart.items, productId, quantity))
    IN IF RedisStore_getCartError(data) # ""
       THEN [error |-> storageError(RedisStore_getCartError(data)),
             command |-> None]
       ELSE IF verify(merged) # ""
       THEN [error |-> storageError("Invalid cart message: " \o verify(merged)),
             command |-> None]
       ELSE [error |-> "",
             command |-> Some(SetCommand(getCartKey(userId), serializeCart(merged)))]

RedisStore_emptyCartAnonymous(userId) ==
    SetCommand(getCartKey(userId), serializeCart(Cart("", <<>>)))

RedisStore_emptyCart(userId) ==
    SetCommand(getCartKey(userId), serializeCart(Cart(userId, <<>>)))

\* The server executing a SET command.
redisSetTruncated(command) ==
    [redis EXCEPT ![command.key] = Some(SubSeq(command.value, 1, 1))]

redisSet(command) == [redis EXCEPT ![command.key] = Some(command.value)]

(***************************************************************************)
(* History bookkeeping at the invocation of an accepted call.              *)
(***************************************************************************)
SameUserInFlight(c, u) ==
    {d \in Calls \ {c} : InFlight(d) /\ userOf(req[d]) = u}

Begin(c, request) ==
    LET u == userOf(request)
        others == SameUserInFlight(c, u)
    IN /\ req' = [req EXCEPT ![c] = request]
       /\ storeCalls' = [storeCalls EXCEPT ![c] = @ + 1]
       /\ overlapped' = [d \in Calls |->
                           IF d \in others THEN TRUE
                           ELSE IF d = c THEN others # {}
                           ELSE overlapped[d]]
       /\ emptied' = IF request.method = "AddItem"
                     THEN [emptied EXCEPT ![u] = "no"]
                     ELSE emptied

(***************************************************************************)
(* The telemetry sinks.  logger.<level> catches a failure of the OTLP emit *)
(* inside log() and returns (fault "emit"); recordCartRequest has no guard *)
(* and neither have its callers: when the instruments of the request      *)
(* metrics fail (fault "metrics"), a call of recordCartRequest may throw.  *)
(* The console output of the logger and the storage metrics are taken to   *)
(* return normally.                                                        *)
(***************************************************************************)
SinkFaults == {"none", "emit", "metrics"}
MetricsError == "metrics exporter failed"
recordCartRequestOutcomes ==
    IF sinks = "metrics" THEN {"returns", "throws"} ELSE {"returns"}

ReportOkAlways(c, method, status, response, inCatch, first, second) ==
    /\ metrics' = [metrics EXCEPT ![c] = Append(@, [method |-> method, status |-> "OK"])]
    /\ callbacks' = [callbacks EXCEPT ![c] = Append(@, response)]
    /\ pc' = [pc EXCEPT ![c] = "done"]

\* The end of a handler: recordCartRequest(method, status) and the callback
\* with the response.  `first` is the outcome of that recordCartRequest.  If
\* it throws inside the try block, the catch clause runs: recordCartRequest
\* (method, FAILED_PRECONDITION), of outcome `second`, and the callback with
\* the failure made of the thrown error.  If it throws inside the catch
\* clause (inCatch), or again, the promise of the handler rejects and the
\* callback is never called.
Report(c, method, status, response, inCatch, first, second) ==
    LET record(st) ==
            [metrics EXCEPT ![c] = Append(@, [method |-> method, status |-> st])]
    IN IF first = "returns"
       THEN /\ metrics' = record(status)
            /\ callbacks' = [callbacks EXCEPT ![c] = Append(@, response)]
            /\ pc' = [pc EXCEPT ![c] = "done"]
       ELSE IF ~inCatch /\ second = "returns"
       THEN /\ metrics' = record("FAILED_PRECONDITION")
            /\ callbacks' = [callbacks EXCEPT ![c] =
                                Append(@, storeFailureStatus(MetricsError))]
            /\ pc' = [pc EXCEPT ![c] = "done"]
       ELSE /\ metrics' = metrics
            /\ callbacks' = callbacks
            /\ pc' = [pc EXCEPT ![c] = "rejected"]

\* A request that fails validation: the metric, the callback, the return.
Reject(c, request, method, message) ==
    /\ req' = [req EXCEPT ![c] = request]
    /\ \E first, second \in recordCartRequestOutcomes :
          Report(c, method, "INVALID_ARGUMENT", InvalidArgument(message),
                 FALSE, first, second)
    /\ UNCHANGED <<store, carts, heap, redis, pending, outcome, storeCalls,
                   failures, historyVars>>

\* The server dispatches new calls while it serves; nothing runs once the
\* process has exited.
\* The options of the client: maxRetriesPerRequest.
maxRetriesPerRequest == 3

\* The close handler of the client is rejecting the commands that wait: the
\* connection is down and the count of reconnection attempts has reached a
\* multiple of maxRetriesPerRequest + 1.
FlushingNever == FALSE

Flushing == client = "reconnecting" /\ retryAttempts = 0

\* A command of a handler is waiting for its reply.
Waiting(c) == pc[c] \in {"get_wait", "set_wait"}

\* The server hands a call to its handler between two turns of the event
\* loop, not in the middle of the close handler.
Accepting ==
    /\ server = "serving"
    /\ exit = None
    /\ ~(Flushing /\ \E d \in Calls : Waiting(d))
Running == exit = None

\* The next free invocation slot.
Free(c) == pc[c] = "idle" /\ (IF c = 1 THEN TRUE ELSE pc[c - 1] # "idle")

(***************************************************************************)
(* The handlers, up to their first suspension (await store.<method>).      *)
(***************************************************************************)
addItem(c, request) ==
    /\ Free(c)
    /\ Accepting
    /\ UNCHANGED envVars
    /\ request \in AllAddItemRequests
    /\ IF validateAddItem(request) # ""
       THEN Reject(c, request, "AddItem", validateAddItem(request))
       ELSE /\ Begin(c, request)
            /\ IF store = "MemoryStore"
               THEN LET r == MemoryStore_addItem(c, userOf(request),
                                 productOf(request), quantityOf(request))
                    IN /\ carts' = r.carts
                       /\ heap' = r.heap
                       /\ outcome' = [outcome EXCEPT ![c] = Resolved(0)]
                       /\ pc' = [pc EXCEPT ![c] = "settled"]
                       /\ snap' = [snap EXCEPT ![c] = kindOf(userOf(request))]
               ELSE /\ pc' = [pc EXCEPT ![c] = "get_wait"]
                    /\ UNCHANGED <<carts, heap, outcome, snap>>
            /\ UNCHANGED <<store, redis, pending, callbacks, metrics, failures>>

getCart(c, request) ==
    /\ Free(c)
    /\ Accepting
    /\ UNCHANGED envVars
    /\ request \in GetCartRequests
    /\ IF validateUserId(request) # ""
       THEN Reject(c, request, "GetCart", validateUserId(request))
       ELSE /\ Begin(c, request)
            /\ IF store = "MemoryStore"
               THEN LET r == MemoryStore_getCart(c, userOf(request))
                    IN /\ heap' = r.heap
                       /\ outcome' = [outcome EXCEPT ![c] = Resolved(r.ref)]
                       /\ pc' = [pc EXCEPT ![c] = "settled"]
                       /\ snap' = [snap EXCEPT ![c] = kindOf(userOf(request))]
               ELSE /\ pc' = [pc EXCEPT ![c] = "get_wait"]
                    /\ UNCHANGED <<heap, outcome, snap>>
            /\ UNCHANGED <<store, carts, redis, pending, callbacks, metrics, failures>>

emptyCart(c, request) ==
    /\ Free(c)
    /\ Accepting
    /\ UNCHANGED envVars
    /\ request \in EmptyCartRequests
    /\ IF validateUserId(request) # ""
       THEN Reject(c, request, "EmptyCart", validateUserId(request))
       ELSE /\ Begin(c, request)
            /\ IF store = "MemoryStore"
               THEN LET r == MemoryStore_emptyCart(c, userOf(request))
                    IN /\ carts' = r.carts
                       /\ heap' = r.heap
                       /\ outcome' = [outcome EXCEPT ![c] = Resolved(0)]
                       /\ pc' = [pc EXCEPT ![c] = "settled"]
                       /\ snap' = [snap EXCEPT ![c] = kindOf(userOf(request))]
                       /\ UNCHANGED pending
               ELSE /\ pending' = [pending EXCEPT ![c] =
                                     Some(RedisStore_emptyCart(userOf(request)))]
                    /\ pc' = [pc EXCEPT ![c] = "set_wait"]
                    /\ UNCHANGED <<carts, heap, outcome, snap>>
            /\ UNCHANGED <<store, redis, callbacks, metrics, failures>>

(***************************************************************************)
(* The handler resumes after `await store.<method>`: the metric and the    *)
(* callback, for the result of the store or, in the catch clause, for its  *)
(* failure.  `result` is how the store call settled, `objects` the Cart    *)
(* objects as they are when the handler resumes (the getCart response is   *)
(* built from the object the store returned), `kind` the history of what   *)
(* the backend held.                                                       *)
(***************************************************************************)
CompleteRetrying(c, result, objects, kind) ==
    LET method == req[c].method
        value == IF method = "GetCart" /\ result.status = "ok"
                 THEN cartResponse(objects[result.ref])
                 ELSE EmptyMessage
    IN IF result.status = "ok" \/ method = "EmptyCart"
       THEN /\ \E first, second \in recordCartRequestOutcomes :
                  IF result.status = "ok"
                  THEN Report(c, method, "OK", Ok(value), FALSE, first, second)
                  ELSE Report(c, method, "FAILED_PRECONDITION",
                              storeFailureStatus(result.error), TRUE, first, second)
            /\ emptied' = IF method = "EmptyCart" /\ result.status = "ok"
                             /\ ~overlapped[c]
                          THEN [emptied EXCEPT ![userOf(req[c])] = kind]
                          ELSE emptied
       ELSE /\ pc' = [pc EXCEPT ![c] = "get_wait"]
            /\ UNCHANGED <<callbacks, metrics, emptied>>

Complete(c, result, objects, kind) ==
    LET method == req[c].method
        value == IF method = "GetCart" /\ result.status = "ok"
                 THEN cartResponse(objects[result.ref])
                 ELSE EmptyMessage
    IN /\ \E first, second \in recordCartRequestOutcomes :
             IF result.status = "ok"
             THEN Report(c, method, "OK", Ok(value), FALSE, first, second)
             ELSE Report(c, method, "FAILED_PRECONDITION",
                         storeFailureStatus(result.error), TRUE, first, second)
       /\ emptied' = IF method = "EmptyCart" /\ result.status = "ok"
                        /\ ~overlapped[c]
                     THEN [emptied EXCEPT ![userOf(req[c])] = kind]
                     ELSE emptied

\* MemoryStore: the store method ran to its end inside the invocation; the
\* handler resumes in a later turn of the event loop.
resume(c) ==
    /\ pc[c] = "settled"
    /\ Running
    /\ UNCHANGED envVars
    /\ Complete(c, outcome[c], heap, snap[c])
    /\ UNCHANGED <<store, carts, heap, redis, req, pending, outcome,
                   storeCalls, failures, snap, overlapped>>

\* A Redis command may be rejected by the client while failures remain in
\* the budget of the run; once the connection is closed, every command is.
MaxRetriesPerRequestError == "Reached the max retries per request limit"
Replies == ClientErrors \cup {""}
RawErrors == ClientErrors \cup {MaxRetriesPerRequestError}
MayFail(error) ==
    IF client = "closed" THEN error # ""
    ELSE IF client = "reconnecting"
    THEN Flushing /\ error = MaxRetriesPerRequestError
    ELSE error = "" \/ failures < MaxFailures
CountFailure(error) ==
    failures' = IF error = "" \/ client # "open" THEN failures ELSE failures + 1

(***************************************************************************)
(* RedisStore: the reply of GET reaches RedisStore.getCart, called by the  *)
(* handler or by RedisStore.addItem, which goes on to the merge and issues *)
(* SET.  error = "" : the server answered; otherwise the client rejected   *)
(* the command.  When the store call settles here, the handler resumes in  *)
(* the same turn (no other handler's code touches shared state between).   *)
(***************************************************************************)
getReply(c, error) ==
    /\ pc[c] = "get_wait"
    /\ Running
    /\ UNCHANGED envVars
    /\ error \in RawErrors \cup {""}
    /\ MayFail(error)
    /\ CountFailure(error)
    /\ LET u == userOf(req[c])
           data == redis[getCartKey(u)]
           kind == kindOf(u)
       IN IF req[c].method = "GetCart"
          THEN LET failure == IF error # "" THEN storageError(error)
                              ELSE RedisStore_getCartError(data)
                   result == IF failure = "" THEN Resolved(c)
                             ELSE Rejected(failure)
                   objects == IF failure = ""
                              THEN [heap EXCEPT ![c] = RedisStore_getCart(u, data)]
                              ELSE heap
               IN /\ heap' = objects
                  /\ outcome' = [outcome EXCEPT ![c] = result]
                  /\ snap' = IF failure = "" THEN [snap EXCEPT ![c] = kind] ELSE snap
                  /\ Complete(c, result, objects, kind)
                  /\ UNCHANGED pending
          ELSE LET r == RedisStore_addItem(u, productOf(req[c]),
                                           quantityOf(req[c]), data)
                   failure == IF error # "" THEN storageError(storageError(error))
                              ELSE r.error
               IN /\ snap' = IF error = "" /\ kind # "corrupt"
                             THEN [snap EXCEPT ![c] = kind]
                             ELSE snap
                  /\ IF failure # ""
                     THEN /\ outcome' = [outcome EXCEPT ![c] = Rejected(failure)]
                          /\ Complete(c, Rejected(failure), heap, kind)
                          /\ UNCHANGED pending
                     ELSE /\ pending' = [pending EXCEPT ![c] = r.command]
                          /\ pc' = [pc EXCEPT ![c] = "set_wait"]
                          /\ UNCHANGED <<outcome, callbacks, metrics, emptied>>
                  /\ UNCHANGED heap
    /\ UNCHANGED <<store, carts, redis, req, storeCalls, overlapped>>

(***************************************************************************)
(* RedisStore: the reply of SET reaches RedisStore.addItem or              *)
(* RedisStore.emptyCart; the store call settles and the handler resumes.   *)
(***************************************************************************)
setReply(c, error) ==
    /\ pc[c] = "set_wait"
    /\ Running
    /\ UNCHANGED envVars
    /\ error \in RawErrors \cup {""}
    /\ MayFail(error)
    /\ CountFailure(error)
    /\ LET kind == kindOf(userOf(req[c]))
           result == IF error = "" THEN Resolved(0)
                     ELSE Rejected(storageError(error))
       IN /\ redis' = IF error = "" THEN redisSet(Val(pending[c])) ELSE redis
          /\ pending' = [pending EXCEPT ![c] = None]
          /\ outcome' = [outcome EXCEPT ![c] = result]
          /\ snap' = IF error = "" /\ req[c].method = "EmptyCart"
                     THEN [snap EXCEPT ![c] = kind]
                     ELSE snap
          /\ Complete(c, result, heap, kind)
    /\ UNCHANGED <<store, carts, heap, req, storeCalls, overlapped>>

Next ==
    \/ \E c \in Calls, request \in AddItemRequests : addItem(c, request)
    \/ \E c \in Calls, request \in GetCartRequests : getCart(c, request)
    \/ \E c \in Calls, request \in EmptyCartRequests : emptyCart(c, request)
    \/ \E c \in Calls : resume(c)
    \/ \E c \in Calls, error \in Replies : getReply(c, error)
    \/ \E c \in Calls, error \in Replies : setReply(c, error)

Spec == Init /\ [][Next]_vars

(***************************************************************************)
(* Vocabulary of the properties.                                           *)
(***************************************************************************)
Done(c) == pc[c] = "done"
Accepted(c) == storeCalls[c] > 0
Response(c) == callbacks[c][1]
DoneWith(c, code) == Done(c) /\ Len(callbacks[c]) = 1 /\ Response(c).code = code
CallsOn(u) == {c \in Calls : Accepted(c) /\ userOf(req[c]) = u}
AddsOf(u, p) ==
    {c \in CallsOn(u) : req[c].method = "AddItem" /\ productOf(req[c]) = p}
Entries(items, p) == {i \in 1..Len(items) : items[i].productId = p}
EmptyCartResponse(u) == [type |-> "Cart", user_id |-> u, items |-> <<>>]

RECURSIVE SumQuantity(_)
SumQuantity(S) ==
    IF S = {} THEN 0
    ELSE LET c == CHOOSE x \in S : TRUE
         IN quantityOf(req[c]) + SumQuantity(S \ {c})

\* The calls for u ran one after the other, all are over, none emptied.
SequentialAdds(u) ==
    \A c \in CallsOn(u) :
        Done(c) /\ ~overlapped[c] /\ req[c].method # "EmptyCart"

\* The last call for u was a getCart that succeeded.
LastIsGetCart(u) ==
    /\ CallsOn(u) # {}
    /\ LET g == CHOOSE c \in CallsOn(u) : \A d \in CallsOn(u) : d <= c
       IN req[g].method = "GetCart" /\ DoneWith(g, "OK")
LastResponse(u) ==
    Response(CHOOSE c \in CallsOn(u) : \A d \in CallsOn(u) : d <= c).value

SumsTo(items, p, total) ==
    /\ Cardinality(Entries(items, p)) = 1
    /\ \A i \in Entries(items, p) : items[i].quantity = total

\* The same of the items of a getCart response.
ResponseSumsTo(items, p, total) ==
    LET at == {i \in 1..Len(items) : items[i].product_id = p}
    IN Cardinality(at) = 1 /\ \A i \in at : items[i].quantity = total

\* After sequential successful addItem calls for (u, p), reading the cart
\* gives one entry for p that carries the sum of the quantities.
AddsSum(u, p) ==
    LET ok == {c \in AddsOf(u, p) : DoneWith(c, "OK")}
    IN ok # {} =>
        /\ SumsTo(storedCart(u).items, p, SumQuantity(ok))
        /\ LastIsGetCart(u) =>
            ResponseSumsTo(LastResponse(u).items, p, SumQuantity(ok))

FitsInt32(u, p) ==
    SumQuantity({c \in AddsOf(u, p) : DoneWith(c, "OK")}) <= Int32Max

\* C1 as claimed: on either backend, for all positive quantities, after
\* sequential addItem(u,p,q1), addItem(u,p,q2) the cart read back holds
\* exactly one entry for p and its quantity is q1+q2.
C1_AnyQuantities ==
    \A u \in Users, p \in Products : SequentialAdds(u) => AddsSum(u, p)

\* C1 amended: the same, for positive quantities whose sum fits the int32
\* of the quantity field.
C1_SequentialAddsSum ==
    \A u \in Users, p \in Products :
        SequentialAdds(u) /\ FitsInt32(u, p) => AddsSum(u, p)

C1_Witness ==
    \E u \in Users, p \in Products :
        /\ store = "RedisStore"
        /\ SequentialAdds(u)
        /\ Cardinality({c \in AddsOf(u, p) : DoneWith(c, "OK")}) = 2
        /\ FitsInt32(u, p)
        /\ LastIsGetCart(u)
        /\ ResponseSumsTo(LastResponse(u).items, p, 2)

(***************************************************************************)
(* Concurrent addItem calls for one user.                                  *)
(***************************************************************************)
\* The accepted addItem calls for u, when no emptyCart was accepted for u.
AddsOn(u) == {c \in CallsOn(u) : req[c].method = "AddItem"}
OnlyAddsAndReads(u) == \A c \in CallsOn(u) : req[c].method # "EmptyCart"
ItemOf(c) == CartItem(productOf(req[c]), quantityOf(req[c]))

\* The stored cart of u is what one call alone wrote: the update of the
\* other call is not in it.
HoldsOnlyOneOf(u, c, d) ==
    storedCart(u).items \in {<<ItemOf(c)>>, <<ItemOf(d)>>}

\* C2: on the Remote Store, two addItem calls for the same user whose GETs
\* both answered before either SET was executed (both read the key absent)
\* both report success, and the stored cart then holds the update of one of
\* them only; when one call reads after the other wrote, both updates are
\* stored.  The lost update is a reachable state (the witness).
C2_RemoteLostUpdate ==
    \A u \in Users : \A c, d \in AddsOn(u) :
        (/\ store = "RedisStore"
         /\ c # d
         /\ AddsOn(u) = {c, d}
         /\ OnlyAddsAndReads(u)
         /\ DoneWith(c, "OK")
         /\ DoneWith(d, "OK"))
        => (HoldsOnlyOneOf(u, c, d) <=> (snap[c] = "absent" /\ snap[d] = "absent"))

C2_Witness ==
    \E u \in Users : \E c, d \in AddsOn(u) :
        /\ store = "RedisStore"
        /\ c # d
        /\ productOf(req[c]) # productOf(req[d])
        /\ DoneWith(c, "OK")
        /\ DoneWith(d, "OK")
        /\ snap[c] = "absent"
        /\ snap[d] = "absent"
        /\ Len(storedCart(u).items) = 1

\* C3 as claimed: on the Local Store, two addItem calls for the same user
\* that are in flight together and both report success leave a stored cart
\* that lacks the update of one of them.
C3_LocalLostUpdate ==
    \A u \in Users : \A c, d \in AddsOn(u) :
        (/\ store = "MemoryStore"
         /\ c # d
         /\ AddsOn(u) = {c, d}
         /\ OnlyAddsAndReads(u)
         /\ overlapped[c]
         /\ overlapped[d]
         /\ DoneWith(c, "OK")
         /\ DoneWith(d, "OK"))
        => HoldsOnlyOneOf(u, c, d)

\* C3 amended: on the Local Store no update is lost.  addItem reads and
\* writes the Map without a suspension between, so whatever the
\* interleaving of the calls, the cart of u holds for every product the
\* sum of the quantities of all the addItem calls accepted for it.
C3_LocalNoLostUpdate ==
    \A u \in Users, p \in Products :
        (store = "MemoryStore" /\ OnlyAddsAndReads(u) /\ AddsOf(u, p) # {})
        => SumsTo(storedCart(u).items, p, SumQuantity(AddsOf(u, p)))

C3_Witness ==
    \E u \in Users : \E c, d \in AddsOn(u) :
        /\ store = "MemoryStore"
        /\ c # d
        /\ overlapped[c]
        /\ overlapped[d]
        /\ DoneWith(c, "OK")
        /\ DoneWith(d, "OK")
        /\ productOf(req[c]) # productOf(req[d])
        /\ Len(storedCart(u).items) = 2

\* C4: in every reachable state, on either backend, each stored cart holds
\* at most one CartItem per distinct productId.
C4_OneItemPerProduct ==
    \A u \in Users, p \in Products :
        Cardinality(Entries(storedCart(u).items, p)) <= 1

C4_Witness ==
    \E u \in Users :
        /\ Len(storedCart(u).items) = 2
        /\ \E i \in 1..2 : storedCart(u).items[i].quantity = 2
        /\ \A c \in AddsOn(u) : DoneWith(c, "OK")

(***************************************************************************)
(* Validation, absent carts, emptyCart and the responses.                  *)
(***************************************************************************)
\* A request that fails validation, in the words of the contract.
Blank(field) == IF field = None THEN TRUE ELSE trim(Val(field)) = ""
NotPositive(quantity) == IF quantity = None THEN TRUE ELSE Val(quantity) <= 0
FailsValidation(request) ==
    IF Blank(request.user_id) THEN TRUE
    ELSE IF request.method # "AddItem" THEN FALSE
    ELSE IF request.item = None THEN TRUE
    ELSE IF Blank(Val(request.item).product_id) THEN TRUE
    ELSE NotPositive(Val(request.item).quantity)

\* The handler is invoked for call c in this step.
Invoked(c) == pc[c] = "idle" /\ pc'[c] # "idle"

\* C5: a request of addItem, getCart or emptyCart that fails validation is
\* answered INVALID_ARGUMENT in the step of its invocation, without a call
\* of a store method, and the backend holds what it held.
C5_RejectedWithoutStore ==
    [][\A c \in Calls :
          (Invoked(c) /\ FailsValidation(req'[c])) =>
              /\ pc'[c] = "done"
              /\ Len(callbacks'[c]) = 1
              /\ callbacks'[c][1].code = "INVALID_ARGUMENT"
              /\ storeCalls'[c] = 0
              /\ UNCHANGED <<carts, heap, redis, pending>>]_vars

C5_Witness ==
    \E c \in Calls :
        /\ DoneWith(c, "INVALID_ARGUMENT")
        /\ req[c].method = "AddItem"
        /\ req[c].user_id = Some("u1")
        /\ req[c].item # None
        /\ Val(req[c].item).quantity = Some(0)
        /\ storeCalls[c] = 0
        /\ storedCart("u1").items # <<>>

\* The failure a handler reports when the Redis client rejected a command.
ClientFailures ==
    {storeFailureStatus(storageError(e)) : e \in ClientErrors}
    \cup {storeFailureStatus(storageError(storageError(e))) : e \in ClientErrors}

\* C6: on either backend, getCart(u) that finds no record for u answers
\* {userId: u, items: []} with OK; a getCart fails only when the Redis
\* client rejected its command, never for the absence of the record.
C6_AbsentCartIsEmpty ==
    \A c \in Calls :
        (req[c].method = "GetCart" /\ Accepted(c) /\ Done(c)) =>
            /\ snap[c] = "absent" =>
                    callbacks[c] = <<Ok(EmptyCartResponse(userOf(req[c])))>>
            /\ ~DoneWith(c, "OK") =>
                    /\ store = "RedisStore"
                    /\ failures > 0
                    /\ snap[c] = "none"
                    /\ callbacks[c][1] \in ClientFailures

C6_Witness ==
    \E c \in Calls :
        /\ store = "RedisStore"
        /\ req[c].method = "GetCart"
        /\ snap[c] = "absent"
        /\ DoneWith(c, "OK")
        /\ Response(c).value = EmptyCartResponse("u2")
        /\ hasRecord("u1")
        /\ ~hasRecord("u2")

\* Call c completes in this step.
Completes(c) == pc[c] # "done" /\ pc'[c] = "done"

\* C7: a getCart(u) that succeeds after a successful emptyCart(u), with no
\* addItem(u) invoked since, answers {userId: u, items: []} whatever the
\* cart held before, on either backend.
C7_EmptyAfterEmptyCart ==
    [][\A c \in Calls :
          (/\ Completes(c)
           /\ req[c].method = "GetCart"
           /\ Accepted(c)
           /\ emptied[userOf(req[c])] # "no"
           /\ callbacks'[c][1].code = "OK")
          => callbacks'[c] = <<Ok(EmptyCartResponse(userOf(req[c])))>>]_vars

C7_Witness ==
    \E c \in Calls :
        /\ req[c].method = "GetCart"
        /\ Accepted(c)
        /\ DoneWith(c, "OK")
        /\ emptied[userOf(req[c])] = "items"
        /\ Response(c).value = EmptyCartResponse(userOf(req[c]))
        /\ \A d \in Calls : d < c => Done(d) /\ ~overlapped[d]

\* What the backend holds for user v.
Contents(v) == [present |-> hasRecord(v), cart |-> storedCart(v)]
EmptyRecord(u) == [present |-> TRUE, cart |-> Cart(u, <<>>)]

\* The emptyCart of call c writes to the backend in this step: the Map.set
\* of MemoryStore.emptyCart, or the SET of RedisStore.emptyCart executed.
EmptyCartWrites(c) ==
    IF store = "MemoryStore"
    THEN Invoked(c) /\ req'[c].method = "EmptyCart" /\ storeCalls'[c] = 1
    ELSE /\ pc[c] = "set_wait"
         /\ req[c].method = "EmptyCart"
         /\ outcome'[c].status = "ok"

\* C8: emptyCart is idempotent.  From every store state, the one without a
\* record for u included, emptyCart(u) leaves the record {u, []} and the
\* records of the other users as they were; applied to the state a first
\* emptyCart(u) left, it changes nothing.  The call succeeds unless the
\* Redis client rejected its command.
C8_EmptyCartIdempotent ==
    [][\A c \in Calls :
          /\ EmptyCartWrites(c) =>
                \A u \in Users : u = userOf(req'[c]) =>
                   /\ Contents(u)' = EmptyRecord(u)
                   /\ \A v \in Users \ {u} : Contents(v)' = Contents(v)
                   /\ Contents(u) = EmptyRecord(u) =>
                          \A v \in Users : Contents(v)' = Contents(v)
          /\ (Completes(c) /\ req[c].method = "EmptyCart" /\ Accepted(c)) =>
                \/ callbacks'[c] = <<Ok(EmptyMessage)>>
                \/ /\ store = "RedisStore"
                   /\ failures' > 0
                   /\ callbacks'[c][1] \in ClientFailures
                   /\ redis' = redis]_vars

C8_Witness ==
    \E u \in Users : \E c, d \in CallsOn(u) :
        /\ c < d
        /\ req[c].method = "EmptyCart"
        /\ req[d].method = "EmptyCart"
        /\ DoneWith(c, "OK")
        /\ DoneWith(d, "OK")
        /\ snap[c] = "absent"
        /\ snap[d] = "empty"
        /\ Contents(u) = EmptyRecord(u)

\* C9: a cart record is never deleted: a record that exists, exists in the
\* next state; and after a successful emptyCart(u) the backend holds the
\* explicit record {userId: u, items: []} under the key of u.
C9_RecordNeverDeleted ==
    [][/\ \A u \in Users : hasRecord(u) => hasRecord(u)'
       /\ \A u \in Users :
             emptied'[u] # "no" => Contents(u)' = EmptyRecord(u)]_vars

C9_Witness ==
    \E u \in Users :
        /\ emptied[u] = "items"
        /\ Contents(u) = EmptyRecord(u)
        /\ \A c \in CallsOn(u) : Done(c)
        /\ \E c \in CallsOn(u) : req[c].method = "EmptyCart" /\ DoneWith(c, "OK")

\* C10: a handler answers a call once, with OK and the empty acknowledgement
\* (the Cart for getCart), INVALID_ARGUMENT or FAILED_PRECONDITION; a
\* failure raised by the store is answered FAILED_PRECONDITION, one status
\* and one message.
StatusCodes == {"OK", "INVALID_ARGUMENT", "FAILED_PRECONDITION"}
ValidGetCart(c) ==
    /\ req[c].method = "GetCart"
    /\ ~FailsValidation(req[c])
    /\ Done(c)

\* C11 as claimed: getCart for a valid userId always succeeds: it answers
\* OK with a Cart and never an error status.
C11_GetCartAlwaysSucceeds ==
    \A c \in Calls :
        ValidGetCart(c) => DoneWith(c, "OK") /\ Response(c).value.type = "Cart"

\* C11 amended: getCart for a valid userId answers OK with the Cart of the
\* user (the empty cart when no record exists, the items when the record
\* read had items) whenever the store answers the read; its only error
\* status is FAILED_PRECONDITION, sent when the Remote Store rejected the
\* read, and never on the Local Store.
C11_GetCartSucceedsUnlessStoreFails ==
    \A c \in Calls :
        ValidGetCart(c) =>
            /\ Accepted(c)
            /\ Len(callbacks[c]) = 1
            /\ IF snap[c] # "none"
               THEN /\ Response(c).code = "OK"
                    /\ Response(c).value.type = "Cart"
                    /\ Response(c).value.user_id = userOf(req[c])
                    /\ snap[c] = "absent" => Response(c).value.items = <<>>
                    /\ snap[c] = "items" => Response(c).value.items # <<>>
               ELSE /\ store = "RedisStore"
                    /\ Response(c).code = "FAILED_PRECONDITION"
                    /\ outcome[c].status = "error"

C11_Witness ==
    \E c, d \in Calls :
        /\ ValidGetCart(c)
        /\ ValidGetCart(d)
        /\ userOf(req[c]) = userOf(req[d])
        /\ DoneWith(c, "OK")
        /\ Response(c).value.items # <<>>
        /\ DoneWith(d, "FAILED_PRECONDITION")

(***************************************************************************)
(* The handlers with failing telemetry sinks.                              *)
(***************************************************************************)
\* A handler promise that rejected is an unhandled rejection: the process
\* handler logs it, forces the server down and exits with code 1.
unhandledRejection(c) ==
    /\ pc[c] = "rejected"
    /\ Running
    /\ server' = "forced"
    /\ exit' = Some(1)
    /\ UNCHANGED <<store, carts, heap, redis, pc, req, pending, outcome,
                   callbacks, metrics, storeCalls, failures, historyVars,
                   REDIS_ADDR, retryAttempts, sinkVars, ping, isShuttingDown, client, shutdownPc>>

SinkAddItemRequests ==
    {AddItemRequest(Some("u1"), Some(Item(Some("p1"), Some(q)))) : q \in {0, 1}}
SinkGetCartRequests == {GetCartRequest(u) : u \in {Some("u1"), Some(" ")}}
SinkEmptyCartRequests == {EmptyCartRequest(u) : u \in {Some("u1"), None}}

SinkInit ==
    /\ REDIS_ADDR \in RedisAddrInputs
    /\ store = initializeStorage(REDIS_ADDR)
    /\ redis = [k \in Keys |-> None]
    /\ sinks \in SinkFaults
    /\ telemetry = Instrumented
    /\ logger = Quiet
    /\ Started

SinkNext ==
    \/ \E c \in Calls, request \in SinkAddItemRequests : addItem(c, request)
    \/ \E c \in Calls, request \in SinkGetCartRequests : getCart(c, request)
    \/ \E c \in Calls, request \in SinkEmptyCartRequests : emptyCart(c, request)
    \/ \E c \in Calls : resume(c)
    \/ \E c \in Calls, error \in Replies : getReply(c, error)
    \/ \E c \in Calls, error \in Replies : setReply(c, error)
    \/ \E c \in Calls : unhandledRejection(c)

SinkSpec == SinkInit /\ [][SinkNext]_vars

\* The handler of call c has returned or thrown.
Over(c) == pc[c] \in {"done", "rejected"}

\* The status the call is due: by its request and by what the store did.
DueCode(c) ==
    IF FailsValidation(req[c]) THEN "INVALID_ARGUMENT"
    ELSE IF outcome[c].status = "ok" THEN "OK"
    ELSE "FAILED_PRECONDITION"

\* C12: whatever the sinks do, the caller of a handler that is over has
\* received the status it is due (OK for a stored success, INVALID_ARGUMENT
\* for a validation failure), and the failure of a sink is not surfaced.
C12_SinkFailureAbsorbed ==
    \A c \in Calls :
        Over(c) =>
            /\ Len(callbacks[c]) = 1
            /\ Response(c).code = DueCode(c)
            /\ Response(c).message # storageError(MetricsError)

(***************************************************************************)
(* RedisStore with a failing client and with stored bytes that do not      *)
(* decode.                                                                 *)
(***************************************************************************)
\* What the key of u1 may hold when the service starts: nothing, a cart
\* written by the service, or a value cut short inside its second field.
StoredCart == serializeCart(Cart("u1", <<CartItem("p1", 1)>>))
CorruptBytes == << <<1, "u1">>, <<2>> >>
StoredInputs == {None, Some(StoredCart), Some(CorruptBytes)}

FailureAddItemRequests ==
    {AddItemRequest(Some("u1"), Some(Item(Some("p1"), Some(1))))}
FailureGetCartRequests == {GetCartRequest(Some("u1"))}
FailureEmptyCartRequests == {EmptyCartRequest(Some("u1"))}

FailureInit ==
    /\ REDIS_ADDR = Some("redis-cart:6379")
    /\ store = initializeStorage(REDIS_ADDR)
    /\ \E data \in StoredInputs :
           redis = [k \in Keys |-> IF k = getCartKey("u1") THEN data ELSE None]
    /\ sinks = "none"
    /\ telemetry = Instrumented
    /\ logger = Quiet
    /\ Started

FailureNext ==
    \/ \E c \in Calls, request \in FailureAddItemRequests : addItem(c, request)
    \/ \E c \in Calls, request \in FailureGetCartRequests : getCart(c, request)
    \/ \E c \in Calls, request \in FailureEmptyCartRequests : emptyCart(c, request)
    \/ \E c \in Calls, error \in RawErrors \cup {""} : getReply(c, error)
    \/ \E c \in Calls, error \in RawErrors \cup {""} : setReply(c, error)

FailureSpec == FailureInit /\ [][FailureNext]_vars

\* The store call of c failed because the client rejected a command.
ClientFailed(c) ==
    /\ Done(c)
    /\ \E e \in RawErrors :
           outcome[c].error \in {storageError(e), storageError(storageError(e))}

\* What the store call of c throws when the client rejects, with the text
\* e, the command that it rejected in this run: GET inside addItem passes
\* two catch blocks of the store, any other command one.
thrownWith(c, e) ==
    IF req[c].method = "AddItem" /\ snap[c] = "none"
    THEN storageError(storageError(e))
    ELSE storageError(e)

DecodeFailed(c) ==
    /\ Done(c)
    /\ outcome[c].status = "error"
    /\ ~ClientFailed(c)

\* The messages of the responses to a decode failure: the text of the
\* decoder behind the prefix of getCart (and of addItem) and of the handler.
DecodeMessages ==
    {storageError(storageError(decodeError(CorruptBytes))),
     storageError(storageError(storageError(decodeError(CorruptBytes))))}

ReadsCorrupt(c) ==
    /\ pc[c] = "get_wait"
    /\ pc'[c] # "get_wait"
    /\ kindOf(userOf(req[c])) = "corrupt"

\* C15: a getCart or addItem that reads bytes that do not decode fails: the
\* store call rejects, the caller is answered FAILED_PRECONDITION and no
\* cart, no SET is issued, and the stored bytes stay as they were.
C15_UndecodableRecordFails ==
    [][\A c \in Calls :
          ReadsCorrupt(c) =>
              /\ outcome'[c].status = "error"
              /\ pc'[c] = "done"
              /\ Len(callbacks'[c]) = 1
              /\ callbacks'[c][1].code = "FAILED_PRECONDITION"
              /\ callbacks'[c][1].value = NoValue
              /\ pending'[c] = None
              /\ redis' = redis]_vars

C15_Witness ==
    \E c, d \in Calls :
        /\ DecodeFailed(c) /\ req[c].method = "GetCart"
        /\ DecodeFailed(d) /\ req[d].method = "AddItem"
        /\ redis[getCartKey("u1")] = Some(CorruptBytes)

\* The handler of c was answered with an error that is neither the failure
\* of its validation nor a failure of its store call.
Unanticipated(c) ==
    /\ Over(c)
    /\ Len(callbacks[c]) = 1
    /\ outcome[c].status # "error"
    /\ Response(c).code # DueCode(c)

\* C16: a failure inside a handler that is neither a validation failure nor
\* a storage failure is answered INTERNAL, not FAILED_PRECONDITION.
C16_InternalClassification ==
    \A c \in Calls : Unanticipated(c) => Response(c).code = "INTERNAL"

(***************************************************************************)
(* The health check: store.ping() and the handler `check`.                 *)
(***************************************************************************)
HealthServices == {"", "hipstershop.CartService"}
HealthCheckResponse(status) == [type |-> "HealthCheckResponse", status |-> status]

\* What the client's PING settles with: a reply of the server, or an error.
PingReply(text) == [kind |-> "reply", text |-> text]
PingError(text) == [kind |-> "error", text |-> text]
LocalPing == [kind |-> "local", text |-> ""]
PingReplies ==
    {PingReply(t) : t \in {"PONG", "pong", ""}} \cup {PingError(e) : e \in RawErrors}

\* How a call of store.ping() ends: it resolves to true or to false, or it
\* rejects.
PingOutcomes == {"true", "false", "raises"}

MemoryStore_ping == "true"

RedisStore_pingAnyReply(reply) ==
    IF reply.kind = "reply" THEN "true" ELSE "false"

RedisStore_ping(reply) ==
    IF reply.kind = "error" THEN "false"
    ELSE IF reply.text = "PONG" THEN "true" ELSE "false"

servingStatusUnlessFalse(isStorageHealthy) ==
    IF isStorageHealthy = "false" THEN "NOT_SERVING" ELSE "SERVING"

\* The status `check` answers with, by how `await store.ping()` ended.
servingStatus(isStorageHealthy) ==
    IF isStorageHealthy = "true" THEN "SERVING" ELSE "NOT_SERVING"

\* The handler is invoked: it calls store.ping() and awaits.
check(c, service) ==
    /\ Free(c)
    /\ Accepting
    /\ pc' = [pc EXCEPT ![c] = "ping_wait"]
    /\ ping' = [ping EXCEPT ![c].service = service]
    /\ UNCHANGED <<store, carts, heap, redis, req, pending, outcome, callbacks,
                   metrics, storeCalls, failures, historyVars, REDIS_ADDR,
                   retryAttempts, sinkVars,
                   processVars>>

\* store.ping() settles and the handler answers.
pingReply(c, reply) ==
    /\ pc[c] = "ping_wait"
    /\ Running
    /\ IF store = "MemoryStore" THEN reply = LocalPing
       ELSE reply \in PingReplies /\ (client = "closed" => reply.kind = "error")
    /\ LET result == IF store = "MemoryStore" THEN MemoryStore_ping
                     ELSE RedisStore_ping(reply)
       IN /\ ping' = [ping EXCEPT ![c].reply = reply, ![c].result = result]
          /\ callbacks' = [callbacks EXCEPT ![c] =
                  Append(@, Ok(HealthCheckResponse(servingStatus(result))))]
          /\ pc' = [pc EXCEPT ![c] = "done"]
    /\ UNCHANGED <<store, carts, heap, redis, req, pending, outcome, metrics,
                   storeCalls, failures, historyVars, REDIS_ADDR,
                   retryAttempts, sinkVars, processVars>>

HealthNext ==
    \/ \E c \in Calls, service \in HealthServices : check(c, service)
    \/ \E c \in Calls, reply \in PingReplies \cup {LocalPing} : pingReply(c, reply)

HealthSpec == Init /\ [][HealthNext]_vars

\* Call c is a health check that has been answered.
Checked(c) == pc[c] = "done" /\ ping[c].result # "none"

\* C17: ping() never raises.  On MemoryStore it resolves to true; on
\* RedisStore it resolves to true exactly when the reply is 'PONG', and to
\* false for any other reply and for an error of the client.
C17_PingTotal ==
    \A c \in Calls :
        Checked(c) =>
            /\ ping[c].result \in {"true", "false"}
            /\ store = "MemoryStore" => ping[c].result = "true"
            /\ store = "RedisStore" =>
                   (ping[c].result = "true" <=> ping[c].reply = PingReply("PONG"))

C17_Witness ==
    \E b, c, d \in Calls :
        /\ Checked(b) /\ Checked(c) /\ Checked(d)
        /\ ping[b].reply = PingReply("PONG") /\ ping[b].result = "true"
        /\ ping[c].reply.kind = "reply" /\ ping[c].result = "false"
        /\ ping[d].reply.kind = "error" /\ ping[d].result = "false"

\* The step in which the health check c is answered.
Answers(c) == pc[c] = "ping_wait" /\ pc'[c] # "ping_wait"

\* C18: a health check completes with a status response and no error:
\* SERVING exactly when ping() resolved to true, NOT_SERVING when it
\* resolved to false (and when it raises); the check changes nothing but
\* its own answer.
C18_HealthCheck ==
    [][\A c \in Calls :
          Answers(c) =>
              /\ pc'[c] = "done"
              /\ Len(callbacks'[c]) = 1
              /\ callbacks'[c][1].code = "OK"
              /\ callbacks'[c][1].value.type = "HealthCheckResponse"
              /\ callbacks'[c][1].value.status = "SERVING" <=> ping'[c].result = "true"
              /\ callbacks'[c][1].value.status = "NOT_SERVING" <=> ping'[c].result = "false"
              /\ servingStatus("raises") = "NOT_SERVING"
              /\ \A d \in Calls \ {c} :
                     /\ callbacks'[d] = callbacks[d]
                     /\ ping'[d] = ping[d]
                     /\ pc'[d] = pc[d]
              /\ UNCHANGED <<store, carts, heap, redis, req, pending, outcome,
                             metrics, storeCalls, failures, historyVars,
                             REDIS_ADDR, retryAttempts, sinkVars,
                             processVars>>]_vars

C18_Witness ==
    \E c, d \in Calls :
        /\ Checked(c) /\ Checked(d)
        /\ ping[c].result = "true" /\ Response(c).value.status = "SERVING"
        /\ ping[d].result = "false" /\ Response(d).value.status = "NOT_SERVING"

(***************************************************************************)
(* The structured logger.                                                  *)
(***************************************************************************)
MaxLogs == 2

LogLevels == {"debug", "info", "warn", "error"}

LOG_LEVEL_PRIORITY ==
    [level \in LogLevels |->
        CASE level = "debug" -> 0
          [] level = "info" -> 1
          [] level = "warn" -> 2
          [] level = "error" -> 3]

getCurrentLogLevelPriority ==
    IF logger.logLevel \in LogLevels
    THEN LOG_LEVEL_PRIORITY[logger.logLevel]
    ELSE LOG_LEVEL_PRIORITY["info"]

shouldLogAbove(level) == LOG_LEVEL_PRIORITY[level] > getCurrentLogLevelPriority

shouldLog(level) == LOG_LEVEL_PRIORITY[level] >= getCurrentLogLevelPriority

\* A context is an object, written as the sequence of its entries; the
\* argument is optional.
LogContexts ==
    {None, Some(<<>>), Some(<< <<"key", "value">> >>),
     Some(<< <<"error", "details">> >>)}

LogMessages == {"Test message", "Error message"}

\* The active span of the call, if any.
Spans == {None, Some([traceId |-> "t1", spanId |-> "s1"])}

\* The entry built by log(): the optional fields are set only on the
\* branches that assign them.
LogEntry(level, message, context, span) ==
    [timestamp |-> "now", level |-> level, message |-> message,
     service |-> "cartservice-ts",
     context |-> IF context # None /\ Len(Val(context)) > 0 THEN context ELSE None,
     trace_id |-> IF span # None THEN Some(Val(span).traceId) ELSE None,
     span_id |-> IF span # None THEN Some(Val(span).spanId) ELSE None]

\* JSON.stringify of an entry: the fields that are set, in the order of
\* their assignment.
JSON_stringify(entry) ==
    << <<"timestamp", entry.timestamp>>, <<"level", entry.level>>,
       <<"message", entry.message>>, <<"service", entry.service>> >>
    \o (IF entry.context # None THEN << <<"context", Val(entry.context)>> >> ELSE <<>>)
    \o (IF entry.trace_id # None THEN << <<"trace_id", Val(entry.trace_id)>> >> ELSE <<>>)
    \o (IF entry.span_id # None THEN << <<"span_id", Val(entry.span_id)>> >> ELSE <<>>)

\* The console method log() writes the line with.
consoleMethod(level) == IF level = "error" THEN "error" ELSE "log"

\* getOtelLogger(): the logger is looked up until a lookup succeeds.
getOtelLogger(lookup) ==
    IF logger.otelLogger # "null" THEN logger.otelLogger
    ELSE IF lookup = "throws" THEN "null" ELSE "ready"

\* The logger after log(level, message, context) has returned.  `span` is
\* the active span and `lookup` how the look-up of the OpenTelemetry logger
\* ends.
logWritten(level, message, context, span, lookup) ==
    IF ~shouldLog(level)
    THEN [logger EXCEPT !.calls = @ + 1,
                        !.call = [level |-> level, message |-> message,
                                  context |-> context]]
    ELSE [logger EXCEPT
             !.calls = @ + 1,
             !.call = [level |-> level, message |-> message,
                       context |-> context],
             !.otelLogger = getOtelLogger(lookup),
             !.console = Append(@,
                 [method |-> consoleMethod(level),
                  output |-> JSON_stringify(
                                LogEntry(level, message, context, span))])]

(***************************************************************************)
(* Shutdown: the signal handler of setupShutdownHandlers.                  *)
(***************************************************************************)
Signals == {"SIGTERM", "SIGINT"}
ShutdownErrors == {"Server shutdown failed"}

DrainedAtOnce == TRUE

\* tryShutdown calls back without an error only when no call is left.
Drained == \A c \in Calls : ~InFlight(c)

signalUnguarded(sig) ==
    /\ Running
    /\ server # "none"
    /\ logger.calls < MaxLogs
    /\ isShuttingDown' = TRUE
    /\ server' = "draining"
    /\ shutdownPc' = "await_server"
    /\ \E lookup \in {"returns", "throws"} :
          logger' = logWritten("info", "Received shutdown signal",
                               Some(<< <<"signal", sig>> >>), None, lookup)
    /\ UNCHANGED <<store, carts, heap, redis, pc, req, pending, outcome,
                   callbacks, metrics, storeCalls, failures, historyVars,
                   REDIS_ADDR, retryAttempts, sinks, telemetry, ping, client, exit>>

\* A signal arrives.  The first one marks the shutdown, logs it and calls
\* server.shutdown(), whose tryShutdown stops the server accepting calls;
\* a later one is logged and ignored.
signal(sig) ==
    /\ Running
    /\ server # "none"
    /\ logger.calls < MaxLogs
    /\ \E lookup \in {"returns", "throws"} :
          IF isShuttingDown
          THEN /\ logger' = logWritten("warn",
                               "Shutdown already in progress, ignoring signal",
                               Some(<< <<"signal", sig>> >>), None, lookup)
               /\ UNCHANGED <<isShuttingDown, server, shutdownPc>>
          ELSE /\ isShuttingDown' = TRUE
               /\ logger' = logWritten("info", "Received shutdown signal",
                                       Some(<< <<"signal", sig>> >>), None, lookup)
               /\ server' = "draining"
               /\ shutdownPc' = "await_server"
    /\ UNCHANGED <<store, carts, heap, redis, pc, req, pending, outcome,
                   callbacks, metrics, storeCalls, failures, historyVars,
                   REDIS_ADDR, retryAttempts, sinks, telemetry, ping, client, exit>>

\* The callback of tryShutdown: without an error once the calls in flight
\* have finished, or with an error, upon which the server is forced down.
\* server.shutdown() resolves either way, and the handler goes on to
\* store.close() (RedisStore: client.quit()) or to shutdownTelemetry().
tryShutdown(error) ==
    /\ shutdownPc = "await_server"
    /\ Running
    /\ IF error = "" THEN Drained /\ server' = "stopped"
                     ELSE server' = "forced"
    /\ shutdownPc' = IF store = "RedisStore" THEN "await_close"
                                             ELSE "await_telemetry"
    /\ UNCHANGED <<store, carts, heap, redis, pc, req, pending, outcome,
                   callbacks, metrics, storeCalls, failures, historyVars,
                   REDIS_ADDR, retryAttempts, sinkVars, ping, isShuttingDown, client, exit>>

\* client.quit() settles: the connection is closed, or the command was
\* rejected and the catch block of the handler exits with code 1.
close(error) ==
    /\ shutdownPc = "await_close"
    /\ Running
    /\ IF error = ""
       THEN /\ client' = "closed"
            /\ shutdownPc' = "await_telemetry"
            /\ UNCHANGED exit
       ELSE /\ exit' = Some(1)
            /\ shutdownPc' = "exited"
            /\ UNCHANGED client
    /\ UNCHANGED <<store, carts, heap, redis, pc, req, pending, outcome,
                   callbacks, metrics, storeCalls, failures, historyVars,
                   REDIS_ADDR, retryAttempts, sinkVars, ping, isShuttingDown, server>>

\* shutdownTelemetry() resolves (it never rejects) and the process exits.
\* How shutdownTelemetry() ends when sdk.shutdown() ends as `fault` says.
shutdownTelemetryResult(fault) == "resolves"

shutdownTelemetry ==
    /\ shutdownPc = "await_telemetry"
    /\ Running
    /\ \E fault \in {"none", "shutdown"} :
          /\ telemetry.sdk = "null" => fault = "none"
          /\ telemetry' = [telemetry EXCEPT
                  !.shutdownTelemetry = shutdownTelemetryResult(fault),
                  !.downFault = fault]
          /\ exit' = IF shutdownTelemetryResult(fault) = "resolves"
                     THEN Some(0) ELSE Some(1)
    /\ shutdownPc' = "exited"
    /\ UNCHANGED <<store, carts, heap, redis, pc, req, pending, outcome,
                   callbacks, metrics, storeCalls, failures, historyVars,
                   REDIS_ADDR, retryAttempts, sinks, logger, ping, isShuttingDown, server, client>>

ShutdownNext ==
    \/ \E c \in Calls, request \in FailureAddItemRequests : addItem(c, request)
    \/ \E c \in Calls, request \in FailureGetCartRequests : getCart(c, request)
    \/ \E c \in Calls, request \in FailureEmptyCartRequests : emptyCart(c, request)
    \/ \E c \in Calls : resume(c)
    \/ \E c \in Calls, error \in Replies : getReply(c, error)
    \/ \E c \in Calls, error \in Replies : setReply(c, error)
    \/ \E sig \in Signals : signal(sig)
    \/ \E error \in ShutdownErrors \cup {""} : tryShutdown(error)
    \/ \E error \in ClientErrors \cup {""} : close(error)
    \/ shutdownTelemetry

ShutdownSpec == Init /\ [][ShutdownNext]_vars

FairShutdownSpec ==
    /\ Init
    /\ [][ShutdownNext]_vars
    /\ WF_vars(\E c \in Calls : resume(c))
    /\ WF_vars(tryShutdown(""))
    /\ WF_vars(\E error \in ClientErrors \cup {""} : close(error))
    /\ WF_vars(shutdownTelemetry)

\* C20: after a shutdown signal the process eventually exits.
C20_ShutdownTerminates == isShuttingDown ~> exit # None

(***************************************************************************)
(* The whole service: the cart handlers and the health check registered on *)
(* one server over the store that main() created.                          *)
(***************************************************************************)
ServiceNext ==
    \/ \E c \in Calls, request \in SinkAddItemRequests : addItem(c, request)
    \/ \E c \in Calls, request \in SinkGetCartRequests : getCart(c, request)
    \/ \E c \in Calls, request \in SinkEmptyCartRequests : emptyCart(c, request)
    \/ \E c \in Calls : resume(c)
    \/ \E c \in Calls, error \in Replies : getReply(c, error)
    \/ \E c \in Calls, error \in Replies : setReply(c, error)
    \/ \E c \in Calls, service \in HealthServices : check(c, service)
    \/ \E c \in Calls, reply \in PingReplies \cup {LocalPing} : pingReply(c, reply)

ServiceSpec == Init /\ [][ServiceNext]_vars

\* The address is configured: REDIS_ADDR is set and not empty.
Configured == REDIS_ADDR # None /\ Val(REDIS_ADDR) # ""

\* C21: the store is RedisStore exactly when an address is configured and
\* MemoryStore otherwise; it never changes; and every handler and the health
\* check work on that store: only a call on RedisStore waits for Redis,
\* only a call on MemoryStore settles within its invocation, and a health
\* check pings Redis exactly when the store is RedisStore.
C21_BackendSelectedOnce ==
    [][/\ store' = store /\ REDIS_ADDR' = REDIS_ADDR
       /\ store \in {"MemoryStore", "RedisStore"}
       /\ store = "RedisStore" <=> Configured
       /\ \A c \in Calls :
             /\ pc'[c] \in {"get_wait", "set_wait"} => store = "RedisStore"
             /\ pc'[c] = "settled" => store = "MemoryStore"
             /\ Checked(c)' => (ping'[c].reply = LocalPing <=> store = "MemoryStore")]_vars

C21_Witness ==
    \E b, c, d \in Calls :
        /\ Configured /\ store = "RedisStore"
        /\ DoneWith(b, "OK") /\ req[b].method = "AddItem"
        /\ pc[c] = "get_wait" /\ req[c].method = "GetCart"
        /\ Checked(d) /\ ping[d].reply = PingReply("PONG")

(***************************************************************************)
(* The codec of RedisStore on its own: a cart is serialized, and the bytes *)
(* are deserialized into a second object.                                  *)
(***************************************************************************)
\* Cart values: any userId, up to MaxItems items in any order, the same
\* product more than once, every kind of int32 quantity.
MaxItems == 2
CodecQuantities == {-Int32Max - 1, -1, 0, 1, Int32Max}
CodecItems == {CartItem(p, q) : p \in Products \cup {""}, q \in CodecQuantities}
CodecItemSeqs == UNION {[1..n -> CodecItems] : n \in 0..MaxItems}
CodecCarts == {Cart(u, items) : u \in Users \cup {""}, items \in CodecItemSeqs}

\* serializeCart(cart): the object is heap[1], the buffer pending[1].
serialize(cart) ==
    /\ store = "RedisStore"
    /\ pc[1] = "idle"
    /\ heap' = [heap EXCEPT ![1] = cart]
    /\ pending' = [pending EXCEPT ![1] = Some(serializeCart(cart))]
    /\ pc' = [pc EXCEPT ![1] = "serialized"]
    /\ UNCHANGED <<store, carts, redis, req, outcome, callbacks, metrics,
                   storeCalls, failures, historyVars, envVars>>

\* deserializeCart(buffer): the result is heap[2].
deserialize ==
    /\ pc[1] = "serialized"
    /\ heap' = [heap EXCEPT ![2] = deserializeCart(Val(pending[1]))]
    /\ pc' = [pc EXCEPT ![1] = "deserialized"]
    /\ UNCHANGED <<store, carts, redis, req, pending, outcome, callbacks,
                   metrics, storeCalls, failures, historyVars, envVars>>

CodecNext ==
    \/ \E cart \in CodecCarts : serialize(cart)
    \/ deserialize

CodecSpec == Init /\ [][CodecNext]_vars

\* C22: deserializeCart(serializeCart(cart)) is cart: the same userId, the
\* same items in the same order with the same productIds and quantities.
C22_CodecRoundTrip ==
    pc[1] = "deserialized" =>
        /\ heap[2].userId = heap[1].userId
        /\ Len(heap[2].items) = Len(heap[1].items)
        /\ \A i \in 1..Len(heap[1].items) :
               /\ heap[2].items[i].productId = heap[1].items[i].productId
               /\ heap[2].items[i].quantity = heap[1].items[i].quantity
        /\ heap[2] = heap[1]

C22_Witness ==
    /\ pc[1] = "deserialized"
    /\ heap[2] = heap[1]
    /\ Len(heap[1].items) = 2
    /\ heap[1].items[1].productId = heap[1].items[2].productId
    /\ heap[1].items[1].quantity = -Int32Max - 1
    /\ heap[1].items[2].quantity = 0

(***************************************************************************)
(* The quantities of the stored items.                                     *)
(***************************************************************************)
StoredQuantities(u, p) ==
    {storedCart(u).items[i].quantity : i \in Entries(storedCart(u).items, p)}

\* Everything the handlers were asked to add to (u, p) fits the int32 of
\* the quantity field.
AddsFitInt32(u, p) == SumQuantity(AddsOf(u, p)) <= Int32Max

\* C23 as stated: every stored item has an integer quantity greater than 0.
C23_PositiveQuantities ==
    \A u \in Users, p \in Products :
        \A q \in StoredQuantities(u, p) : q \in Int /\ q > 0

\* C23 amended: every stored quantity is an integer; it is greater than 0
\* on MemoryStore, and on RedisStore as long as the quantities added to the
\* product fit the int32 in which it is stored.
C23_PositiveUnlessOverflow ==
    \A u \in Users, p \in Products :
        \A q \in StoredQuantities(u, p) :
            /\ q \in Int
            /\ store = "MemoryStore" \/ AddsFitInt32(u, p) => q > 0
            /\ store = "RedisStore" => q \in (-Int32Max - 1)..Int32Max

C23_Witness ==
    \E u \in Users, p \in Products :
        /\ store = "RedisStore"
        /\ Cardinality({c \in AddsOf(u, p) : DoneWith(c, "OK")}) = 3
        /\ AddsFitInt32(u, p)
        /\ StoredQuantities(u, p) = {3}

(***************************************************************************)
(* One attempt per invocation.                                             *)
(***************************************************************************)
\* The store call of c fails in this step.
StoreFails(c) == InFlight(c) /\ outcome'[c].status = "error"

\* C24: a handler invocation calls its store method at most once; when the
\* store call fails the handler answers FAILED_PRECONDITION in that step,
\* without a further store call or command; and a handler that is over
\* stays over.
C24_NoRetry ==
    [][\A c \in Calls :
          /\ storeCalls'[c] <= 1
          /\ StoreFails(c) =>
                 /\ pc'[c] = "done"
                 /\ storeCalls'[c] = storeCalls[c]
                 /\ pending'[c] = None
                 /\ Len(callbacks'[c]) = 1
                 /\ callbacks'[c][1].code = "FAILED_PRECONDITION"
          /\ Over(c) => pc'[c] = pc[c] /\ storeCalls'[c] = storeCalls[c]]_vars

C24_Witness ==
    \E c, d \in Calls :
        /\ DoneWith(c, "FAILED_PRECONDITION") /\ storeCalls[c] = 1
        /\ req[c].method = "AddItem" /\ snap[c] # "none"
        /\ failures = MaxFailures
        /\ DoneWith(d, "OK") /\ storeCalls[d] = 1

(***************************************************************************)
(* The connection of the Redis client.  The client is created with         *)
(* retryStrategy: times -> min(times * 50, 2000), which always returns a   *)
(* delay, so the client never gives up reconnecting, and with              *)
(* maxRetriesPerRequest: 3, so each time the count of attempts reaches a   *)
(* multiple of 4 the commands that wait are rejected.  Only the remainder  *)
(* of the count matters and only the remainder is kept.                    *)
(***************************************************************************)
retryStrategyUncapped(times) == times * 50

retryStrategy(times) == IF times * 50 < 2000 THEN times * 50 ELSE 2000

\* The connection is lost: the close handler counts the first attempt and
\* sets the timer of the reconnection.
connectionLost ==
    /\ store = "RedisStore"
    /\ client = "open"
    /\ Running
    /\ client' = "reconnecting"
    /\ retryAttempts' = 1 % (maxRetriesPerRequest + 1)
    /\ UNCHANGED <<store, carts, heap, redis, pc, req, pending, outcome,
                   callbacks, metrics, storeCalls, failures, historyVars,
                   REDIS_ADDR, sinkVars, ping, isShuttingDown, server, exit,
                   shutdownPc>>

\* The timer fires and the attempt to connect fails: the close handler
\* counts the attempt and sets the timer again.
retry ==
    /\ client = "reconnecting"
    /\ Running
    /\ ~(Flushing /\ \E c \in Calls : Waiting(c))
    /\ retryStrategy(retryAttempts + 1) \in Nat
    /\ retryAttempts' = (retryAttempts + 1) % (maxRetriesPerRequest + 1)
    /\ UNCHANGED <<store, carts, heap, redis, pc, req, pending, outcome,
                   callbacks, metrics, storeCalls, failures, historyVars,
                   REDIS_ADDR, sinkVars, ping, isShuttingDown, server, client,
                   exit, shutdownPc>>

\* The timer fires and the attempt to connect succeeds.
reconnect ==
    /\ client = "reconnecting"
    /\ Running
    /\ ~(Flushing /\ \E c \in Calls : Waiting(c))
    /\ client' = "open"
    /\ retryAttempts' = 0
    /\ UNCHANGED <<store, carts, heap, redis, pc, req, pending, outcome,
                   callbacks, metrics, storeCalls, failures, historyVars,
                   REDIS_ADDR, sinkVars, ping, isShuttingDown, server, exit,
                   shutdownPc>>

\* The close handler rejects a command that waits.
flush(c) ==
    /\ Flushing
    /\ \/ getReply(c, MaxRetriesPerRequestError)
       \/ setReply(c, MaxRetriesPerRequestError)

RetryNext ==
    \/ \E c \in Calls, request \in FailureAddItemRequests : addItem(c, request)
    \/ \E c \in Calls, request \in FailureGetCartRequests : getCart(c, request)
    \/ \E c \in Calls, request \in FailureEmptyCartRequests : emptyCart(c, request)
    \/ \E c \in Calls, error \in Replies : getReply(c, error)
    \/ \E c \in Calls, error \in Replies : setReply(c, error)
    \/ \E c \in Calls : flush(c)
    \/ connectionLost
    \/ retry
    \/ reconnect

\* The timer of the reconnection fires, and the close handler rejects the
\* waiting commands in the turn in which the count reaches the ceiling.
RetrySpec ==
    /\ FailureInit
    /\ [][RetryNext]_vars
    /\ WF_vars(retry)
    /\ WF_vars(\E c \in Calls : flush(c))

\* C25: a command that waits while the backend stays unreachable does not
\* wait forever: unless the connection comes back, the client rejects it
\* when the retry ceiling is reached and the handler answers
\* FAILED_PRECONDITION.
C25_FailsAfterRetryCeiling ==
    \A c \in Calls :
        (Waiting(c) /\ client = "reconnecting")
            ~> (DoneWith(c, "FAILED_PRECONDITION") \/ client = "open")

C25_Witness ==
    \E c, d \in Calls :
        /\ client = "reconnecting"
        /\ DoneWith(c, "FAILED_PRECONDITION") /\ req[c].method = "GetCart"
        /\ Response(c).message
               = storageError(storageError(MaxRetriesPerRequestError))
        /\ DoneWith(d, "FAILED_PRECONDITION") /\ req[d].method = "EmptyCart"
        /\ failures = 0

\* C26: a handler that is over, its store call having returned or raised
\* (or its validation having failed), has invoked its callback exactly
\* once.
C26_CallbackExactlyOnce ==
    \A c \in Calls : Over(c) => Len(callbacks[c]) = 1

(***************************************************************************)
(* Telemetry: the instrumentation module is loaded before main() and       *)
(* initializes itself; the shutdown handler shuts it down.                 *)
(***************************************************************************)
MaxInits == 2
OtelEndpoints == {None, Some("http://localhost:4317"), Some("invalid://endpoint")}

\* Where the OpenTelemetry library throws inside initializeTelemetry: in
\* the constructor of an exporter, in that of the NodeSDK, or in sdk.start().
InitFaults == {"none", "exporter", "sdk", "start"}

initializeTelemetryUncaught(fault) ==
    IF fault = "none" THEN "returns" ELSE "throws"

\* How initializeTelemetry() ends when the library throws as `fault` says.
initializeTelemetryResult(fault) == "returns"

initializeTelemetry(fault) ==
    /\ Running
    /\ shutdownPc = "idle"
    /\ telemetry.inits < MaxInits
    /\ fault = "exporter" => telemetry.otelExporterEndpoint # None
    /\ telemetry' = [telemetry EXCEPT
           !.sdk = IF fault \in {"exporter", "sdk"} THEN @
                   ELSE IF fault = "start" THEN "created" ELSE "started",
           !.inits = @ + 1,
           !.initializeTelemetry = initializeTelemetryResult(fault),
           !.initFault = fault]
    /\ UNCHANGED <<store, carts, heap, redis, pc, req, pending, outcome,
                   callbacks, metrics, storeCalls, failures, historyVars,
                   REDIS_ADDR, retryAttempts, sinks, logger, ping, processVars>>

\* The module is loaded; main() creates the store and starts the server.
\* An exception thrown while the module loads ends the process.
main ==
    /\ Running
    /\ server = "none"
    /\ telemetry.inits > 0
    /\ IF telemetry.initializeTelemetry = "returns"
       THEN server' = "serving" /\ UNCHANGED exit
       ELSE exit' = Some(1) /\ UNCHANGED server
    /\ UNCHANGED <<store, carts, heap, redis, pc, req, pending, outcome,
                   callbacks, metrics, storeCalls, failures, historyVars,
                   REDIS_ADDR, retryAttempts, sinkVars, ping, isShuttingDown,
                   client, shutdownPc>>

TelemetryInit ==
    /\ REDIS_ADDR \in RedisAddrInputs
    /\ store = initializeStorage(REDIS_ADDR)
    /\ redis = [k \in Keys |-> None]
    /\ sinks = "none"
    /\ \E endpoint \in OtelEndpoints :
           telemetry = Telemetry(endpoint, "null", 0, "none", "none")
    /\ logger = Quiet
    /\ carts = [u \in Users |-> 0]
    /\ heap = [c \in Calls |-> Cart("", <<>>)]
    /\ pc = [c \in Calls |-> "idle"]
    /\ req = [c \in Calls |-> NoRequest]
    /\ pending = [c \in Calls |-> None]
    /\ outcome = [c \in Calls |-> NoOutcome]
    /\ callbacks = [c \in Calls |-> <<>>]
    /\ metrics = [c \in Calls |-> <<>>]
    /\ storeCalls = [c \in Calls |-> 0]
    /\ failures = 0
    /\ snap = [c \in Calls |-> "none"]
    /\ overlapped = [c \in Calls |-> FALSE]
    /\ emptied = [u \in Users |-> "no"]
    /\ ping = [c \in Calls |-> NoPing]
    /\ isShuttingDown = FALSE
    /\ server = "none"
    /\ client = "open"
    /\ retryAttempts = 0
    /\ exit = None
    /\ shutdownPc = "idle"

TelemetryNext ==
    \/ \E fault \in InitFaults : initializeTelemetry(fault)
    \/ main
    \/ \E sig \in Signals : signal(sig)
    \/ \E error \in ShutdownErrors \cup {""} : tryShutdown(error)
    \/ \E error \in ClientErrors \cup {""} : close(error)
    \/ shutdownTelemetry

TelemetrySpec == TelemetryInit /\ [][TelemetryNext]_vars

\* C27: initializeTelemetry never throws, whatever the endpoint and
\* wherever the library fails, also when called again; shutdownTelemetry
\* never rejects; so the process does not exit before the server is
\* started, and a shutdown that reaches shutdownTelemetry exits with 0.
C27_TelemetryNeverThrows ==
    /\ telemetry.initializeTelemetry \in {"none", "returns"}
    /\ telemetry.shutdownTelemetry \in {"none", "resolves"}
    /\ server = "none" => exit = None
    /\ telemetry.shutdownTelemetry # "none" => exit = Some(0)

C27_Witness ==
    /\ telemetry.otelExporterEndpoint = Some("invalid://endpoint")
    /\ telemetry.inits = 2
    /\ telemetry.initFault = "exporter"
    /\ telemetry.sdk = "created"
    /\ telemetry.initializeTelemetry = "returns"
    /\ telemetry.downFault = "shutdown"
    /\ telemetry.shutdownTelemetry = "resolves"
    /\ exit = Some(0)

(***************************************************************************)
(* The calls of the logger.                                                *)
(***************************************************************************)
\* logger.debug | info | warn | error (message, context).  `span` is the
\* active span, `lookup` how the look-up of the OpenTelemetry logger ends
\* and `emit` how its emit() ends.
log(level, message, context, span, lookup, emit) ==
    /\ Running
    /\ logger.calls < MaxLogs
    /\ logger' = logWritten(level, message, context, span, lookup)
    /\ UNCHANGED <<store, carts, heap, redis, pc, req, pending, outcome,
                   callbacks, metrics, storeCalls, failures, historyVars,
                   REDIS_ADDR, retryAttempts, sinks, telemetry, ping,
                   processVars>>

\* The process is configured with LOG_LEVEL.
LoggerInit ==
    /\ REDIS_ADDR = None
    /\ store = initializeStorage(REDIS_ADDR)
    /\ redis = [k \in Keys |-> None]
    /\ sinks = "none"
    /\ telemetry = Instrumented
    /\ \E logLevel \in LogLevels :
           logger = Logger(logLevel, "null", <<>>, 0, NoCall)
    /\ Started

LoggerNext ==
    \E level \in LogLevels, message \in LogMessages, context \in LogContexts,
       span \in Spans, lookup \in {"returns", "throws"},
       emit \in {"returns", "throws"} :
        log(level, message, context, span, lookup, emit)

LoggerSpec == LoggerInit /\ [][LoggerNext]_vars

Logged == logger'.calls = logger.calls + 1

\* The lines the step wrote to the console.
Emitted ==
    SubSeq(logger'.console, Len(logger.console) + 1, Len(logger'.console))

HasField(output, key) == \E i \in 1..Len(output) : output[i][1] = key

AtOrAboveConfigured(level) ==
    LOG_LEVEL_PRIORITY[level] >= LOG_LEVEL_PRIORITY[logger.logLevel]

\* C28: a logger call at or above the configured level writes exactly one
\* line and a call below it none; the line is written with console.error
\* exactly when the level is error and with console.log otherwise, and it
\* has a context field exactly when a non-empty context was passed.
C28_OneLinePerCall ==
    [][Logged =>
        /\ SubSeq(logger'.console, 1, Len(logger.console)) = logger.console
        /\ IF AtOrAboveConfigured(logger'.call.level)
           THEN /\ Len(Emitted) = 1
                /\ Emitted[1].method \in {"error", "log"}
                /\ Emitted[1].method = "error" <=> logger'.call.level = "error"
                /\ Emitted[1].output[2] = <<"level", logger'.call.level>>
                /\ Emitted[1].output[3] = <<"message", logger'.call.message>>
                /\ HasField(Emitted[1].output, "context")
                      <=> /\ logger'.call.context # None
                          /\ Val(logger'.call.context) # <<>>
           ELSE Len(logger'.console) = Len(logger.console)]_vars

C28_Witness ==
    /\ logger.logLevel = "warn"
    /\ logger.calls = 2
    /\ logger.call.level = "info"
    /\ Len(logger.console) = 1
    /\ logger.console[1].method = "error"
    /\ HasField(logger.console[1].output, "context")

(***************************************************************************)
(* Validation of addItem over every combination of the request's fields.   *)
(***************************************************************************)
\* One value of each kind for each field: missing, blank or not positive,
\* and valid.
ValidationRequests ==
    {request \in AllAddItemRequests :
        /\ request.user_id \in {None, Some(" "), Some("u1")}
        /\ request.item # None =>
              /\ Val(request.item).product_id \in {None, Some(""), Some("p1")}
              /\ Val(request.item).quantity \in {None, Some(0), Some(-1), Some(1)}}

ValidationNext ==
    \/ \E c \in Calls, request \in ValidationRequests : addItem(c, request)
    \/ \E c \in Calls : resume(c)
    \/ \E c \in Calls, error \in Replies : getReply(c, error)
    \/ \E c \in Calls, error \in Replies : setReply(c, error)

ValidationSpec == Init /\ [][ValidationNext]_vars

\* The checks a request fails, each taken alone.
FailsUserId(request) == missingOrBlank(request.user_id)
FailsItem(request) == request.item = None
FailsProductId(request) ==
    request.item # None /\ missingOrBlank(Val(request.item).product_id)
FailsQuantity(request) ==
    /\ request.item # None
    /\ \/ Val(request.item).quantity = None
       \/ Val(Val(request.item).quantity) <= 0

\* The message of the earliest check the request fails, "" if it fails none.
EarliestFailure(request) ==
    IF FailsUserId(request) THEN "user_id is required"
    ELSE IF FailsItem(request) THEN "item is required"
    ELSE IF FailsProductId(request) THEN "product_id is required"
    ELSE IF FailsQuantity(request) THEN "quantity must be greater than 0"
    ELSE ""

FailedChecks(request) ==
    {field \in {"user_id", "item", "product_id", "quantity"} :
        \/ field = "user_id" /\ FailsUserId(request)
        \/ field = "item" /\ FailsItem(request)
        \/ field = "product_id" /\ FailsProductId(request)
        \/ field = "quantity" /\ FailsQuantity(request)}

\* C29: an addItem request that fails a check is answered once, with
\* INVALID_ARGUMENT and the message of the earliest check it fails in the
\* order user_id, item, product_id, quantity, and never reaches the store.
C29_EarliestFailureDecides ==
    \A c \in Calls :
        (req[c].method = "AddItem" /\ FailedChecks(req[c]) # {}) =>
            /\ pc[c] = "done"
            /\ callbacks[c] = <<InvalidArgument(EarliestFailure(req[c]))>>
            /\ storeCalls[c] = 0

C29_Witness ==
    \E c, d, e \in Calls :
        /\ req[c].method = "AddItem" /\ req[d].method = "AddItem"
        /\ req[e].method = "AddItem"
        /\ FailedChecks(req[c]) = {"user_id", "product_id", "quantity"}
        /\ callbacks[c] = <<InvalidArgument("user_id is required")>>
        /\ FailedChecks(req[d]) = {"product_id", "quantity"}
        /\ callbacks[d] = <<InvalidArgument("product_id is required")>>
        /\ FailedChecks(req[e]) = {"user_id", "item"}
        /\ callbacks[e] = <<InvalidArgument("user_id is required")>>

(***************************************************************************)
(* The frame of addItem.                                                   *)
(***************************************************************************)
\* The items of the cart a record of the remote store decodes to.
ItemsOf(data) == IF data = None THEN <<>> ELSE deserializeCart(Val(data)).items

\* The items of the cart the local store holds for the user.
ItemsIn(cs, hp, userId) == IF cs[userId] = 0 THEN <<>> ELSE hp[cs[userId]].items

\* `after` differs from `before` in one place: the first item of the
\* product has another quantity, or, if there is none, the item is added
\* at the end; every other item keeps its position and its quantity.
OnePlace(before, after, productId, quantity) ==
    LET i == find(before, productId)
    IN IF i # 0
       THEN /\ Len(after) = Len(before)
            /\ \A j \in 1..Len(before) :
                  IF j = i
                  THEN /\ after[j].productId = productId
                       /\ after[j].quantity # before[j].quantity
                  ELSE after[j] = before[j]
       ELSE /\ Len(after) = Len(before) + 1
            /\ SubSeq(after, 1, Len(before)) = before
            /\ after[Len(after)] = CartItem(productId, quantity)

\* The steps of a successful addItem: the whole call on the local store;
\* on the remote store the merge into the cart read and the write.
AddedLocally(c) ==
    /\ store = "MemoryStore"
    /\ pc[c] = "idle" /\ pc'[c] = "settled"
    /\ req'[c].method = "AddItem"
Merged(c) ==
    /\ pc[c] = "get_wait" /\ pc'[c] = "set_wait"
    /\ req[c].method = "AddItem"
Written(c) ==
    /\ pc[c] = "set_wait"
    /\ req[c].method = "AddItem"
    /\ outcome'[c].status = "ok"

LocalFrame(c) ==
    AddedLocally(c) =>
        OnePlace(ItemsIn(carts, heap, userOf(req'[c])),
                 ItemsIn(carts', heap', userOf(req'[c])),
                 productOf(req'[c]), quantityOf(req'[c]))

StoredFrame(c) ==
    OnePlace(ItemsOf(redis[getCartKey(userOf(req[c]))]),
             ItemsOf(redis'[getCartKey(userOf(req[c]))]),
             productOf(req[c]), quantityOf(req[c]))

\* C30 as stated: every successful addItem changes the stored cart of the
\* user in exactly one place.
C30_OnePlaceChanged ==
    [][\A c \in Calls :
          /\ LocalFrame(c)
          /\ Written(c) => StoredFrame(c)]_vars

\* C30: a successful addItem changes the cart it read in exactly one place
\* and stores the result: on the local store, and on the remote store when
\* no other call for the user overlaps it, the stored cart changes in
\* exactly one place.
C30_OnePlaceOfCartRead ==
    [][\A c \in Calls :
          /\ LocalFrame(c)
          /\ Merged(c) =>
                OnePlace(ItemsOf(redis[getCartKey(userOf(req[c]))]),
                         ItemsOf(Some(Val(pending'[c]).value)),
                         productOf(req[c]), quantityOf(req[c]))
          /\ Written(c) =>
                /\ redis'[getCartKey(userOf(req[c]))] = Some(Val(pending[c]).value)
                /\ \A k \in Keys \ {getCartKey(userOf(req[c]))} :
                      redis'[k] = redis[k]
                /\ ~overlapped[c] => StoredFrame(c)]_vars

C30_Witness ==
    /\ store = "RedisStore"
    /\ req[3] = AddItemRequest(Some("u1"), Some(Item(Some("p1"), Some(1))))
    /\ pc[3] = "done"
    /\ outcome[3].status = "ok"
    /\ ~overlapped[3]
    /\ ItemsOf(redis[getCartKey("u1")]) = <<CartItem("p1", 2), CartItem("p2", 1)>>

(***************************************************************************)
(* Isolation of the carts of different users.                              *)
(***************************************************************************)
\* The call takes a step.
Steps(c) == pc'[c] # pc[c]

\* The users a step of the call may touch: the user of its request.
UsersOf(request) ==
    IF missingOrBlank(request.user_id) THEN {} ELSE {Val(request.user_id)} \cap Users

\* What either backend stores for the user is the same before and after.
StoredUnchanged(v) ==
    /\ carts'[v] = carts[v]
    /\ carts[v] # 0 => heap'[carts[v]] = heap[carts[v]]
    /\ redis'[getCartKey(v)] = redis[getCartKey(v)]

\* C31: a step of a call for user u leaves what is stored for every other
\* user unchanged, on either backend and in every interleaving, and
\* distinct users have distinct keys in the remote store.
C31_CartsIsolated ==
    [][/\ \A u, v \in Users : u # v => getCartKey(u) # getCartKey(v)
       /\ \A c \in Calls :
             Steps(c) => \A v \in Users \ UsersOf(req'[c]) : StoredUnchanged(v)]_vars

C31_Witness ==
    /\ store = "RedisStore"
    /\ req[1] = AddItemRequest(Some("u2"), Some(Item(Some("p1"), Some(1))))
    /\ req[2].method = "AddItem" /\ req[2].user_id = Some("u1")
    /\ req[3] = EmptyCartRequest(Some("u1"))
    /\ \A c \in Calls : pc[c] = "done" /\ outcome[c].status = "ok"
    /\ overlapped[2] /\ overlapped[3]
    /\ ItemsOf(redis[getCartKey("u2")]) = <<CartItem("p1", 1)>>

(***************************************************************************)
(* The request metric of a handler.                                        *)
(***************************************************************************)
\* C32: a handler that has answered has recorded exactly one request
\* metric, with the name of its method and the status it answered with; a
\* handler that has not answered yet has recorded none.
C32_OneMetricPerRequest ==
    \A c \in Calls :
        /\ Len(metrics[c]) = IF Done(c) THEN 1 ELSE 0
        /\ Done(c) =>
              /\ metrics[c][1].method = req[c].method
              /\ metrics[c][1].status = Response(c).code
              /\ metrics[c][1].status \in StatusCodes

C32_Witness ==
    \E c, d, e \in Calls :
        /\ req[c].method = "AddItem" /\ DoneWith(c, "INVALID_ARGUMENT")
        /\ metrics[c] = <<[method |-> "AddItem", status |-> "INVALID_ARGUMENT"]>>
        /\ req[d].method = "EmptyCart" /\ DoneWith(d, "FAILED_PRECONDITION")
        /\ metrics[d] = <<[method |-> "EmptyCart", status |-> "FAILED_PRECONDITION"]>>
        /\ req[e].method = "GetCart" /\ DoneWith(e, "OK")
        /\ metrics[e] = <<[method |-> "GetCart", status |-> "OK"]>>

(***************************************************************************)
(* The two variants of ICartStore side by side.  A MemoryStore (carts,     *)
(* heap) and a RedisStore (redis) receive the same calls one after the     *)
(* other, each call running to its end on both before the next starts.     *)
(* callbacks[c] holds what getCart returned from the MemoryStore and from   *)
(* the RedisStore, as the response message a handler makes of it.          *)
(***************************************************************************)
EquivQuantities == {1, Int32Max - 1}

\* The quantity the MemoryStore holds for the product of the user.
HeldQuantity(userId, productId) ==
    LET items == IF carts[userId] = 0 THEN <<>> ELSE heap[carts[userId]].items
        i == find(items, productId)
    IN IF i = 0 THEN 0 ELSE items[i].quantity

\* The cart MemoryStore.getCart returns to call c.
MemoryStore_cartOf(c, userId) ==
    LET r == MemoryStore_getCart(c, userId) IN r.heap[r.ref]

ICartStore_unchanged ==
    UNCHANGED <<store, pending, outcome, metrics, storeCalls, failures,
                historyVars, envVars>>

ICartStore_addItem(c, userId, productId, quantity) ==
    /\ Free(c)
    /\ Running
    /\ HeldQuantity(userId, productId) + quantity <= Int32Max
    /\ LET m == MemoryStore_addItem(c, userId, productId, quantity)
           r == RedisStore_addItem(userId, productId, quantity,
                                   redis[getCartKey(userId)])
       IN /\ r.error = ""
          /\ carts' = m.carts
          /\ heap' = m.heap
          /\ redis' = redisSet(Val(r.command))
    /\ req' = [req EXCEPT ![c] =
                 AddItemRequest(Some(userId), Some(Item(Some(productId), Some(quantity))))]
    /\ callbacks' = callbacks
    /\ pc' = [pc EXCEPT ![c] = "done"]
    /\ ICartStore_unchanged

ICartStore_getCart(c, userId) ==
    /\ Free(c)
    /\ Running
    /\ RedisStore_getCartError(redis[getCartKey(userId)]) = ""
    /\ carts' = carts
    /\ heap' = MemoryStore_getCart(c, userId).heap
    /\ redis' = redis
    /\ req' = [req EXCEPT ![c] = GetCartRequest(Some(userId))]
    /\ callbacks' = [callbacks EXCEPT ![c] =
           <<Ok(cartResponse(MemoryStore_cartOf(c, userId))),
             Ok(cartResponse(RedisStore_getCart(userId, redis[getCartKey(userId)])))>>]
    /\ pc' = [pc EXCEPT ![c] = "done"]
    /\ ICartStore_unchanged

ICartStore_emptyCart(c, userId) ==
    /\ Free(c)
    /\ Running
    /\ LET m == MemoryStore_emptyCart(c, userId)
       IN /\ carts' = m.carts
          /\ heap' = m.heap
    /\ redis' = redisSet(RedisStore_emptyCart(userId))
    /\ req' = [req EXCEPT ![c] = EmptyCartRequest(Some(userId))]
    /\ callbacks' = callbacks
    /\ pc' = [pc EXCEPT ![c] = "done"]
    /\ ICartStore_unchanged

EquivNext ==
    \/ \E c \in Calls, u \in Users, p \in Products, q \in EquivQuantities :
          ICartStore_addItem(c, u, p, q)
    \/ \E c \in Calls, u \in Users : ICartStore_getCart(c, u)
    \/ \E c \in Calls, u \in Users : ICartStore_emptyCart(c, u)

EquivSpec == Init /\ [][EquivNext]_vars

\* C33: after every sequence of valid addItem, getCart and emptyCart calls,
\* each run to its end on a MemoryStore and on a reachable RedisStore, with
\* every quantity and every sum of quantities within int32, getCart
\* returns the same cart from both for every user, and every getCart of
\* the sequence returned the same cart from both.
C33_BackendsAgree ==
    /\ \A u \in Users :
          /\ RedisStore_getCartError(redis[getCartKey(u)]) = ""
          /\ cartResponse(MemoryStore_cartOf(1, u))
                = cartResponse(RedisStore_getCart(u, redis[getCartKey(u)]))
    /\ \A c \in Calls :
          (Done(c) /\ req[c].method = "GetCart") =>
              /\ Len(callbacks[c]) = 2
              /\ callbacks[c][1] = callbacks[c][2]

C33_Witness ==
    /\ req[1] = AddItemRequest(Some("u1"), Some(Item(Some("p1"), Some(Int32Max - 1))))
    /\ req[2] = AddItemRequest(Some("u1"), Some(Item(Some("p1"), Some(1))))
    /\ req[3] = GetCartRequest(Some("u1"))
    /\ Done(3)
    /\ callbacks[3][2].value.items = <<[product_id |-> "p1", quantity |-> Int32Max]>>
    /\ callbacks[3][1] = callbacks[3][2]

(***************************************************************************)
(* getCart reads only.                                                     *)
(***************************************************************************)
\* The backend holds after the step what it held before it, for every user.
BackendUnchanged ==
    /\ carts' = carts
    /\ redis' = redis
    /\ \A u \in Users : carts[u] # 0 => heap'[carts[u]] = heap[carts[u]]

setReplyLost(c, error) ==
    /\ pc[c] = "set_wait"
    /\ Running
    /\ UNCHANGED envVars
    /\ error \in RawErrors
    /\ MayFail(error)
    /\ CountFailure(error)
    /\ redis' = redisSet(Val(pending[c]))
    /\ pending' = [pending EXCEPT ![c] = None]
    /\ outcome' = [outcome EXCEPT ![c] = Rejected(storageError(error))]
    /\ snap' = snap
    /\ Complete(c, Rejected(storageError(error)), heap, kindOf(userOf(req[c])))
    /\ UNCHANGED <<store, carts, heap, req, storeCalls, overlapped>>

WriteNext ==
    \/ FailureNext
    \/ \E c \in Calls, error \in RawErrors : setReplyLost(c, error)

WriteSpec == FailureInit /\ [][WriteNext]_vars

\* The store call of c, an addItem or emptyCart of the RedisStore, fails in
\* this step.
StoreCallFails(c) ==
    /\ store = "RedisStore"
    /\ pc[c] \in {"get_wait", "set_wait"}
    /\ req[c].method \in {"AddItem", "EmptyCart"}
    /\ outcome'[c].status = "error"

\* C35 as stated: a failing addItem or emptyCart of the RedisStore leaves
\* every record as it was.
C35_FailedLeavesRecord ==
    [][\A c \in Calls : StoreCallFails(c) => redis' = redis]_vars

\* C35: a failing addItem or emptyCart of the RedisStore never stores a
\* partial cart.  If it fails before its SET (the GET is rejected or the
\* record does not decode) every record is as it was; if its SET fails, the
\* record of the user is as it was or is the complete cart the call was
\* writing, and the records of the other users are as they were.
C35_FailedStoresNothingPartial ==
    [][\A c \in Calls :
          StoreCallFails(c) =>
              IF pc[c] = "get_wait"
              THEN redis' = redis
              ELSE /\ \A k \in Keys \ {getCartKey(userOf(req[c]))} :
                         redis'[k] = redis[k]
                   /\ \/ redis' = redis
                      \/ /\ redis'[getCartKey(userOf(req[c]))]
                               = Some(Val(pending[c]).value)
                         /\ decodeError(Val(pending[c]).value) = ""
                         /\ deserializeCart(Val(pending[c]).value).userId
                               = userOf(req[c])]_vars

C35_Witness ==
    /\ req[1] = AddItemRequest(Some("u1"), Some(Item(Some("p1"), Some(1))))
    /\ DoneWith(1, "FAILED_PRECONDITION")
    /\ snap[1] = "items"
    /\ pc[2] = "idle"
    /\ redis[getCartKey("u1")]
          = Some(serializeCart(Cart("u1", <<CartItem("p1", 2)>>)))

(***************************************************************************)
(* emptyCart and the addItem calls in flight.                              *)
(***************************************************************************)
\* The accepted addItem calls for the user.
AddItemsFor(u) ==
    {a \in Calls : req[a].method = "AddItem" /\ Accepted(a) /\ userOf(req[a]) = u}

\* Call g is a getCart(u) answered OK that ran with no other call for u in
\* flight, after emptyCart(u) of call e had succeeded; every addItem(u) was
\* invoked before e was.  (Calls are numbered in the order of invocation.)
ReadsAfterEmptyCart(g, e, u) ==
    /\ req[g] = GetCartRequest(Some(u))
    /\ DoneWith(g, "OK")
    /\ ~overlapped[g]
    /\ e < g
    /\ req[e] = EmptyCartRequest(Some(u))
    /\ DoneWith(e, "OK")
    /\ \A a \in AddItemsFor(u) : a < e

\* C36 as stated: after a successful emptyCart(u) with no addItem(u)
\* started afterwards, getCart(u) returns no items, whatever addItem(u)
\* calls were in flight when emptyCart ran.
C36_EmptyDespiteInFlight ==
    \A g, e \in Calls, u \in Users :
        ReadsAfterEmptyCart(g, e, u) => Response(g).value.items = <<>>

\* C36: after a successful emptyCart(u) with no addItem(u) started
\* afterwards, getCart(u) returns no items on the Local Store, and on the
\* Remote Store when no addItem(u) was in flight while emptyCart ran.
C36_EmptyUnlessInFlightRemote ==
    \A g, e \in Calls, u \in Users :
        (/\ ReadsAfterEmptyCart(g, e, u)
         /\ \/ store = "MemoryStore"
            \/ ~overlapped[e]
            \/ \A a \in AddItemsFor(u) : ~overlapped[a])
        => Response(g).value.items = <<>>

C36_Witness ==
    /\ store = "MemoryStore"
    /\ ReadsAfterEmptyCart(3, 2, "u1")
    /\ AddItemsFor("u1") = {1}
    /\ DoneWith(1, "OK")
    /\ overlapped[1] /\ overlapped[2]
    /\ Response(3).value = EmptyCartResponse("u1")

(***************************************************************************)
(* The userId of the stored carts.                                         *)
(***************************************************************************)
\* C37: on either backend the record stored for user u decodes and carries
\* the userId u, and every getCart(u) answered OK, for a present or an
\* absent cart, returns a cart whose user_id is u.
C37_RecordCarriesUserId ==
    /\ \A u \in Users :
          hasRecord(u) => kindOf(u) # "corrupt" /\ storedCart(u).userId = u
    /\ \A c \in Calls :
          (req[c].method = "GetCart" /\ DoneWith(c, "OK")) =>
              /\ Response(c).value.type = "Cart"
              /\ Some(Response(c).value.user_id) = req[c].user_id

C37_Witness ==
    /\ store = "RedisStore"
    /\ req[1] = EmptyCartRequest(Some("u1")) /\ DoneWith(1, "OK")
    /\ req[2].method = "AddItem" /\ req[2].user_id = Some("u1")
    /\ DoneWith(2, "OK") /\ snap[2] = "empty"
    /\ req[3] = GetCartRequest(Some("u1")) /\ DoneWith(3, "OK")
    /\ snap[3] = "items"
    /\ Response(3).value.user_id = "u1"
    /\ storedCart("u1").userId = "u1"

(***************************************************************************)
(* Shutdown signals.                                                       *)
(***************************************************************************)

\* How far the shutdown sequence has come.
StageRank(stage) ==
    CASE stage = "idle" -> 0
      [] stage = "await_server" -> 1
      [] stage = "await_close" -> 2
      [] stage = "await_telemetry" -> 3
      [] stage = "exited" -> 4

\* The lines on the console that carry `message`.
ConsoleLines(message) ==
    {i \in 1..Len(logger.console) :
        logger.console[i].output[3] = <<"message", message>>}

\* A step of the signal handler.
SignalHandled == logger'.calls = logger.calls + 1

\* C38: the shutdown sequence runs at most once.  The sequence starts only
\* on a signal that finds no shutdown in progress, the flag is never reset
\* and the sequence never goes back to an earlier stage; a signal that
\* arrives later, the server still draining or not, is logged and changes
\* nothing else; the connection is closed only by the step that follows
\* the drain, which happens once, and a closed connection stays closed.
C38_ShutdownRunsOnce ==
    [][/\ isShuttingDown => isShuttingDown'
       /\ shutdownPc' # shutdownPc =>
             StageRank(shutdownPc') > StageRank(shutdownPc)
       /\ shutdownPc' = "await_server" /\ shutdownPc # "await_server" =>
             ~isShuttingDown /\ SignalHandled
       /\ isShuttingDown /\ SignalHandled =>
             /\ UNCHANGED <<processVars, telemetry, sinks, pc, redis, carts, heap>>
             /\ logger'.call.message = "Shutdown already in progress, ignoring signal"
       /\ client' = "closed" /\ client # "closed" => shutdownPc = "await_close"
       /\ client = "closed" => client' = "closed"
       /\ Cardinality(ConsoleLines("Received shutdown signal")') <= 1
      ]_vars

\* A second signal has been ignored while the first shutdown still awaits
\* the drain of a call in flight: both lines are on the console.
C38_Witness ==
    /\ store = "RedisStore"
    /\ shutdownPc = "await_server"
    /\ server = "draining"
    /\ ~Drained
    /\ Len(logger.console) = 2
    /\ logger.console[1].output[3] = <<"message", "Received shutdown signal">>
    /\ logger.console[1].output[5] = <<"context", << <<"signal", "SIGTERM">> >> >>
    /\ logger.console[2].output[3] =
          <<"message", "Shutdown already in progress, ignoring signal">>
    /\ logger.console[2].output[5] = <<"context", << <<"signal", "SIGINT">> >> >>

(***************************************************************************)
(* The delays of the reconnection.  The client calls retryStrategy with    *)
(* the count of the attempts each time the connection closes, when it is   *)
(* lost and when an attempt to connect fails, and sets the timer of the    *)
(* next attempt to the delay returned; a value that is not a number would  *)
(* end the reconnection.  Here retryAttempts is the count itself.          *)
(***************************************************************************)
MaxTimes == 42

\* The backend stays unreachable: the connection closes again.
closeHandler ==
    /\ store = "RedisStore"
    /\ client \in {"open", "reconnecting"}
    /\ Running
    /\ retryAttempts < MaxTimes
    /\ retryAttempts' = retryAttempts + 1
    /\ LET times == retryAttempts + 1
           delay == retryStrategy(times)
       IN  /\ \E lookup \in {"returns", "throws"} :
                 logger' = logWritten("warn", "Redis connection retry",
                               Some(<< <<"attempt", times>>, <<"delayMs", delay>> >>),
                               None, lookup)
           /\ client' = IF delay \in Nat THEN "reconnecting" ELSE "end"
    /\ UNCHANGED <<store, carts, heap, redis, pc, req, pending, outcome,
                   callbacks, metrics, storeCalls, failures, historyVars,
                   REDIS_ADDR, sinks, telemetry, ping, isShuttingDown, server,
                   exit, shutdownPc>>

BackoffInit ==
    /\ REDIS_ADDR = Some("redis-cart:6379")
    /\ store = initializeStorage(REDIS_ADDR)
    /\ redis = [k \in Keys |-> None]
    /\ sinks = "none"
    /\ telemetry = Instrumented
    /\ \E logLevel \in LogLevels :
           logger = Logger(logLevel, "null", <<>>, 0, NoCall)
    /\ Started

BackoffNext == closeHandler

BackoffSpec == BackoffInit /\ [][BackoffNext]_vars

\* The attempt and the delay a call of retryStrategy has logged.
AttemptOf(context) == context[1][2]
DelayOf(context) == context[2][2]

\* The contexts of the lines on the console.
RetryLine(i) == logger.console[i].output[5][2]

Least(a, b) == IF a < b THEN a ELSE b

====
